---------------------------- MODULE Spec2Model ----------------------------
(***************************************************************************)
(* LawChain AI backend (src/main.py, src/app.py): the case / document /    *)
(* hearing record store and the request handlers that read and write it.   *)
(*                                                                         *)
(* The store is the Oracle schema init_database creates: three tables,     *)
(* identity keys, a UNIQUE document_hash and two foreign keys to cases.    *)
(* Every handler opens its own connection, so every handler is its own     *)
(* transaction: rows it wrote are tagged with the worker that wrote them   *)
(* until its commit or rollback (READ COMMITTED: other workers do not see  *)
(* them, and wait on them where a constraint or a row lock needs them).    *)
(* Each worker (a serving process of either entry point) runs one handler  *)
(* at a time; workers interleave statement by statement.                   *)
(***************************************************************************)
EXTENDS Integers, Sequences, FiniteSets, TLC

(* ------------------------------ bounds -------------------------------- *)
\* identity values the cases / documents / hearings sequences may hand out
MaxCaseId == 2
MaxDocId == 2
MaxHearingId == 2
\* ... and the hearings created where every handler runs or two workers do
FewHearings == 1
\* largest value of the store's CURRENT_TIMESTAMP
MaxClock == 1

(* ------------------------------ values -------------------------------- *)
Workers == {"w1", "w2"}
NoTx == "none"
\* SQL NULL (None in Python): no string of characters, the empty one included
Null == <<"NULL">>
\* a string bound to a VARCHAR2 or CLOB column: Oracle stores the empty
\* string as NULL
ToColumn(str) == IF str = << >> THEN Null ELSE str
AllTables == {"CASES", "DOCUMENTS", "HEARINGS"}

CaseIds == 1..MaxCaseId

\* CaseCreate bodies (strings are sequences of characters)
Case1 ==
    [case_title |-> <<"a", "b">>, client_name |-> <<"J", "s">>,
     client_email |-> <<"j">>, client_address |-> <<"x">>,
     lawyer_name |-> <<"K">>, lawyer_email |-> <<"k">>,
     case_type |-> <<"t">>, description |-> <<"d", "S">>,
     client_wallet |-> <<"0", "1">>, lawyer_wallet |-> <<"0", "2">>]
Case2 ==
    [case_title |-> <<"_", "c">>, client_name |-> <<"m">>,
     client_email |-> <<"m">>, client_address |-> <<"y">>,
     lawyer_name |-> <<"S", "m">>, lawyer_email |-> <<"s">>,
     case_type |-> << >>, description |-> <<"a">>,
     client_wallet |-> <<"0", "3">>, lawyer_wallet |-> <<"0", "4">>]
\* a CaseUpdate body
Update1 ==
    [case_title |-> <<"B">>, client_name |-> <<"n">>,
     client_email |-> <<"n">>, client_address |-> << >>,
     lawyer_name |-> <<"L">>, lawyer_email |-> <<"l">>,
     case_type |-> <<"%">>, description |-> <<"s">>]

MutableColumns ==
    {"case_title", "client_name", "client_email", "client_address",
     "lawyer_name", "lawyer_email", "case_type", "description"}

\* uploaded file contents (byte strings)
Contents == {<< >>, <<97>>}

NoExc == [kind |-> "none", code |-> 0, detail |-> "none"]
NoResp == [code |-> 0]
Idle ==
    [op |-> "idle", app |-> "none", arg |-> [none |-> TRUE], pc |-> "idle",
     conn |-> FALSE, cursor |-> FALSE, tx |-> NoTx, exc |-> NoExc,
     local |-> [none |-> TRUE], resp |-> NoResp]

(* ------------------------------- state -------------------------------- *)
VARIABLES
    cases,          \* rows of table cases
    documents,      \* rows of table documents
    hearings,       \* rows of table hearings
    nextCaseId,     \* identity sequences of the three tables
    nextDocId,
    nextHearingId,
    clock,          \* the store's CURRENT_TIMESTAMP
    tables,         \* the tables that exist (user_tables)
    openConns,      \* connections opened by oracledb.connect and not closed
    openCursors,    \* cursors opened by conn.cursor() and not closed
    req             \* per worker: the handler it runs and that handler's locals

store == <<cases, documents, hearings>>
seqs == <<nextCaseId, nextDocId, nextHearingId>>
vars == <<cases, documents, hearings, nextCaseId, nextDocId, nextHearingId,
          clock, tables, openConns, openCursors, req>>

(* ------------------------ the transactional store --------------------- *)
\* A row carries its column values and the tags of the open transactions
\* that inserted, deleted or updated it (NoTx when committed / untouched).
CaseRow(cols, t) ==
    [cols |-> cols, ins_by |-> t, del_by |-> NoTx, upd_by |-> NoTx, new |-> cols]
ChildRow(cols, t) ==
    [cols |-> cols, ins_by |-> t, del_by |-> NoTx]

\* what a statement of transaction t reads: committed rows and its own writes
Sees(t, r) == r.ins_by \in {NoTx, t} /\ r.del_by # t
CaseValue(t, r) == IF r.upd_by = t THEN r.new ELSE r.cols

VisibleCases(t) == {CaseValue(t, r) : r \in {x \in cases : Sees(t, x)}}
VisibleDocuments(t) == {r.cols : r \in {x \in documents : Sees(t, x)}}
VisibleHearings(t) == {r.cols : r \in {x \in hearings : Sees(t, x)}}

\* a row another open transaction holds a lock on
LockedByOther(t, r) == r.del_by \notin {NoTx, t}
CaseLockedByOther(t, r) == LockedByOther(t, r) \/ r.upd_by \notin {NoTx, t}

\* conn.commit(): the transaction's writes become the committed rows
CommitCases(t) ==
    {[r EXCEPT !.ins_by = IF r.ins_by = t THEN NoTx ELSE r.ins_by,
               !.upd_by = IF r.upd_by = t THEN NoTx ELSE r.upd_by,
               !.cols = CaseValue(t, r)] : r \in {x \in cases : x.del_by # t}}
\* (faulty variant: a commit that keeps the rows the transaction deleted)
CommitInsertsOnly(t, rows) ==
    {[r EXCEPT !.ins_by = IF r.ins_by = t THEN NoTx ELSE r.ins_by,
               !.del_by = IF r.del_by = t THEN NoTx ELSE r.del_by] : r \in rows}
CommitChildren(t, rows) ==
    {[r EXCEPT !.ins_by = IF r.ins_by = t THEN NoTx ELSE r.ins_by] :
        r \in {x \in rows : x.del_by # t}}

\* conn.rollback(): the transaction's writes are undone
RollbackCases(t) ==
    {[r EXCEPT !.del_by = IF r.del_by = t THEN NoTx ELSE r.del_by,
               !.upd_by = IF r.upd_by = t THEN NoTx ELSE r.upd_by,
               !.new = IF r.upd_by = t THEN r.cols ELSE r.new] :
        r \in {x \in cases : x.ins_by # t}}
\* (faulty variant: a rollback that drops the transaction's inserts but
\* leaves its deletes pending)
RollbackInsertsOnly(t, rows) == {x \in rows : x.ins_by # t}
RollbackChildren(t, rows) ==
    {[r EXCEPT !.del_by = IF r.del_by = t THEN NoTx ELSE r.del_by] :
        r \in {x \in rows : x.ins_by # t}}

(* ------------------------------ statements ---------------------------- *)
\* Each statement has an outcome: "ok", "wait" (it waits on a row another
\* open transaction holds) or the ORA- error it raises.

\* INSERT INTO cases ... RETURNING case_id: identity key, status and
\* created_at from the column defaults, blockchain_tx not supplied
NewCaseCols(case, id, now) ==
    [case_id |-> id,
     case_title |-> ToColumn(case.case_title),
     client_name |-> ToColumn(case.client_name),
     client_email |-> ToColumn(case.client_email),
     client_address |-> ToColumn(case.client_address),
     lawyer_name |-> ToColumn(case.lawyer_name),
     lawyer_email |-> ToColumn(case.lawyer_email),
     case_type |-> ToColumn(case.case_type),
     description |-> ToColumn(case.description),
     client_wallet |-> ToColumn(case.client_wallet),
     lawyer_wallet |-> ToColumn(case.lawyer_wallet),
     blockchain_tx |-> Null, status |-> "Active", created_at |-> now]
InsertCaseOutcome == IF "CASES" \in tables THEN "ok" ELSE "ORA-00942"
\* (faulty variant: the key taken as one more than the largest key t sees)
InsertCaseMaxPlusOne(t, case) ==
    LET ids == {r.case_id : r \in VisibleCases(t)} \cup {0}
        id == 1 + CHOOSE m \in ids : \A n \in ids : n <= m IN
    cases \cup {CaseRow(NewCaseCols(case, id, clock), t)}
InsertCase(t, case) == cases \cup {CaseRow(NewCaseCols(case, nextCaseId, clock), t)}

\* (faulty variant: an UPDATE of the whole row, status reset with the rest)
UpdateWholeRow(old, case) ==
    [old EXCEPT !.case_title = ToColumn(case.case_title),
                !.client_name = ToColumn(case.client_name),
                !.client_email = ToColumn(case.client_email),
                !.client_address = ToColumn(case.client_address),
                !.lawyer_name = ToColumn(case.lawyer_name),
                !.lawyer_email = ToColumn(case.lawyer_email),
                !.case_type = ToColumn(case.case_type),
                !.description = ToColumn(case.description),
                !.status = "Active"]
\* UPDATE cases SET <the eight columns> WHERE case_id = :9
UpdateCaseCols(old, case) ==
    [old EXCEPT !.case_title = ToColumn(case.case_title),
                !.client_name = ToColumn(case.client_name),
                !.client_email = ToColumn(case.client_email),
                !.client_address = ToColumn(case.client_address),
                !.lawyer_name = ToColumn(case.lawyer_name),
                !.lawyer_email = ToColumn(case.lawyer_email),
                !.case_type = ToColumn(case.case_type),
                !.description = ToColumn(case.description)]
\* a status is modelled as a TLA+ string: NULL in the status column, and
\* the empty status stored as NULL
NoStatus == "<NULL>"
StatusToColumn(status) == IF status = "" THEN NoStatus ELSE status
\* (faulty variant: SET status = :1, created_at = CURRENT_TIMESTAMP)
UpdateStatusStamped(old, status) ==
    [old EXCEPT !.status = IF status = "" THEN "<NULL>" ELSE status,
                !.created_at = clock]
\* UPDATE cases SET status = :1 WHERE case_id = :2
UpdateStatusCols(old, status) == [old EXCEPT !.status = StatusToColumn(status)]

CaseTargets(t, id) == {r \in cases : Sees(t, r) /\ CaseValue(t, r).case_id = id}
\* (faulty variant: an UPDATE that raises when it matches no row)
UpdateOutcomeChecked(t, id) ==
    IF "CASES" \notin tables THEN "ORA-00942"
    ELSE IF CaseTargets(t, id) = {} THEN "ORA-01403"
    ELSE IF \E r \in CaseTargets(t, id) : CaseLockedByOther(t, r) THEN "wait"
    ELSE "ok"
UpdateOutcome(t, id) ==
    IF "CASES" \notin tables THEN "ORA-00942"
    ELSE IF \E r \in CaseTargets(t, id) : CaseLockedByOther(t, r) THEN "wait"
    ELSE "ok"
UpdateCaseRows(t, id, case) ==
    {IF r \in CaseTargets(t, id)
        THEN [r EXCEPT !.upd_by = t, !.new = UpdateCaseCols(CaseValue(t, r), case)]
        ELSE r : r \in cases}
UpdateStatusRows(t, id, status) ==
    {IF r \in CaseTargets(t, id)
        THEN [r EXCEPT !.upd_by = t, !.new = UpdateStatusCols(CaseValue(t, r), status)]
        ELSE r : r \in cases}

\* DELETE FROM hearings|documents WHERE case_id = :1
ChildTargets(t, rows, id) == {r \in rows : Sees(t, r) /\ r.cols.case_id = id}
DeleteChildrenOutcome(t, table, rows, id) ==
    IF table \notin tables THEN "ORA-00942"
    ELSE IF \E r \in ChildTargets(t, rows, id) : LockedByOther(t, r) THEN "wait"
    ELSE "ok"
\* (faulty variant: the DELETE without its WHERE clause)
DeleteEveryChild(t, rows, id) ==
    {IF Sees(t, r) THEN [r EXCEPT !.del_by = t] ELSE r : r \in rows}
DeleteChildren(t, rows, id) ==
    {IF r \in ChildTargets(t, rows, id) THEN [r EXCEPT !.del_by = t] ELSE r :
        r \in rows}

\* the rows of a child table that reference case id and that transaction t
\* has not deleted: fk_case_docs, fk_case_hearings
References(t, rows, id) == {r \in rows : r.cols.case_id = id /\ r.del_by # t}
\* a referencing row that is there whatever the other transactions do
Settled(t, r) == r.ins_by \in {NoTx, t} /\ r.del_by = NoTx

\* (faulty variant: cases deleted with no foreign key to hold them)
DeleteCaseUnconstrained(t, id) ==
    IF "CASES" \notin tables THEN "ORA-00942"
    ELSE IF \E r \in CaseTargets(t, id) : CaseLockedByOther(t, r) THEN "wait"
    ELSE "ok"
\* (faulty variant: the foreign-key check of the DELETE looks at committed
\* rows only and does not wait for an open transaction's insert)
DeleteCaseUnlocked(t, id) ==
    IF "CASES" \notin tables THEN "ORA-00942"
    ELSE IF {r \in cases : Sees(t, r) /\ CaseValue(t, r).case_id = id} = {} THEN "ok"
    ELSE IF \E r \in cases : /\ Sees(t, r) /\ CaseValue(t, r).case_id = id
                             /\ CaseLockedByOther(t, r) THEN "wait"
    ELSE IF \E c \in documents \cup hearings :
                /\ c.cols.case_id = id /\ c.del_by = NoTx /\ c.ins_by \in {NoTx, t}
         THEN "ORA-02292"
    ELSE "ok"
\* DELETE FROM cases WHERE case_id = :1
DeleteCaseOutcome(t, id) ==
    LET refs == References(t, documents, id) \cup References(t, hearings, id) IN
    IF "CASES" \notin tables THEN "ORA-00942"
    ELSE IF CaseTargets(t, id) = {} THEN "ok"
    ELSE IF \E r \in CaseTargets(t, id) : CaseLockedByOther(t, r) THEN "wait"
    ELSE IF \E c \in refs : Settled(t, c) THEN "ORA-02292"
    ELSE IF refs # {} THEN "wait"
    ELSE "ok"
DeleteCaseRows(t, id) ==
    {IF r \in CaseTargets(t, id) THEN [r EXCEPT !.del_by = t] ELSE r : r \in cases}

\* (faulty variant: a child table without its foreign key)
ParentUnchecked(t, id) == "ok"
\* the parent-key check of an INSERT into a child table
ParentOutcome(t, id) ==
    LET ps == {r \in cases : r.cols.case_id = id /\ r.del_by # t} IN
    IF ps = {} THEN "ORA-02291"
    ELSE IF \E p \in ps : p.ins_by \notin {NoTx, t} \/ p.del_by # NoTx THEN "wait"
    ELSE "ok"

\* hashlib.sha256(content).hexdigest()
Sha256Hex(content) ==
    CASE content = << >> ->
            "e3b0c44298fc1c149afbf4c8996fb92427ae41e4649b934ca495991b7852b855"
      [] content = <<97>> ->
            "ca978112ca1bbdcafac231b39a23dc4da786eff8147c4e72b9807785afee48bb"
      [] content = <<98>> ->
            "3e23e8160039594a33894f6564e1b1348bbd7a0088d42c4acb73eeaed59c009d"

\* (faulty variant: the digest of a file already read to its end)
DigestOfEmptyRead(a, content) == Sha256Hex(<< >>)
\* content = await file.read();
\* document_hash = hashlib.sha256(content).hexdigest()
DocumentHash(a, content) == Sha256Hex(content)

\* (faulty variant: uniqueness looked up among the committed rows only, as
\* a SELECT before the INSERT would)
UniqueAmongCommitted(t, hash) ==
    IF \E d \in documents : /\ d.cols.document_hash = hash
                             /\ d.ins_by \in {NoTx, t} /\ d.del_by = NoTx
       THEN "ORA-00001" ELSE "ok"
\* (faulty variant: document_hash without its UNIQUE constraint)
HashUnconstrained(t, hash) == "ok"
\* document_hash VARCHAR2(200) UNIQUE
UniqueHashOutcome(t, hash) ==
    LET same == {d \in documents : d.cols.document_hash = hash /\ d.del_by # t} IN
    IF same = {} THEN "ok"
    ELSE IF \E d \in same : Settled(t, d) THEN "ORA-00001"
    ELSE "wait"

\* INSERT INTO documents (case_id, document_name, document_hash,
\*                        document_type, uploaded_by)
NewDocumentCols(a, hash, id, now) ==
    [doc_id |-> id, case_id |-> a.case_id, document_name |-> a.document_name,
     document_hash |-> hash, document_type |-> a.document_type,
     uploaded_by |-> a.uploaded_by, blockchain_tx |-> Null, uploaded_at |-> now]
InsertDocumentOutcome(t, a, hash) ==
    IF "DOCUMENTS" \notin tables THEN "ORA-00942"
    ELSE IF UniqueHashOutcome(t, hash) # "ok" THEN UniqueHashOutcome(t, hash)
    ELSE ParentOutcome(t, a.case_id)
InsertDocument(t, a, hash) ==
    documents \cup {ChildRow(NewDocumentCols(a, hash, nextDocId, clock), t)}

\* TO_DATE(:2, 'YYYY-MM-DD'): the day number of a well-formed date
ToDate(str) ==
    CASE str = "2024-01-01" -> [ok |-> TRUE, day |-> 19723]
      [] str = "2024-01-02" -> [ok |-> TRUE, day |-> 19724]
      [] OTHER -> [ok |-> FALSE, day |-> 0]

\* INSERT INTO hearings (case_id, hearing_date, hearing_time, court_name, notes)
NewHearingCols(h, id, now) ==
    [hearing_id |-> id, case_id |-> h.case_id,
     hearing_date |-> ToDate(h.hearing_date).day, hearing_time |-> h.hearing_time,
     court_name |-> h.court_name, notes |-> h.notes, created_at |-> now]
InsertHearingOutcome(t, h) ==
    IF "HEARINGS" \notin tables THEN "ORA-00942"
    ELSE IF ~ToDate(h.hearing_date).ok THEN "ORA-01861"
    ELSE ParentOutcome(t, h.case_id)
InsertHearing(t, h) ==
    hearings \cup {ChildRow(NewHearingCols(h, nextHearingId, clock), t)}

(* --------------------------- handler plumbing ------------------------- *)
\* A handler is modelled statement by statement.  Its first step is the
\* connect and the first statement; a step whose statement raises runs the
\* handler's except block with it (nothing another worker can see happens
\* between a raise and the rollback that follows it).

\* get_db_connection() wraps a failed connect in HTTPException(500)
ConnFailed ==
    [kind |-> "HTTPException", code |-> 500, detail |-> "Database connection failed"]
\* an oracledb error raised by cursor.execute or conn.commit
DbError(ora) == [kind |-> "DatabaseError", code |-> 0, detail |-> ora]
\* (faulty variant: the error raised as a 400)
Error400(exc) == [code |-> 400, detail |-> exc.detail]
\* raise HTTPException(status_code=500, detail=str(e))
Error500(exc) == [code |-> 500, detail |-> exc.detail]

\* the outcome of the first statement of a handler: the connect can fail,
\* and the store may fail a statement for its own reasons (a lost session,
\* a timeout, being chosen as a deadlock victim)
Outcome(connected, healthy, out) ==
    IF ~connected THEN "connect" ELSE IF ~healthy THEN "ORA-03113" ELSE out
Exception(out) == IF out = "connect" THEN ConnFailed ELSE DbError(out)

\* the handler's locals once conn = get_db_connection() and
\* cursor = conn.cursor() have run and the first statement has succeeded
Entered(op, app, arg, local, pc) ==
    [Idle EXCEPT !.op = op, !.app = app, !.arg = arg, !.local = local, !.pc = pc,
                 !.conn = TRUE, !.cursor = TRUE, !.tx = "open"]
\* ... and when the connect or the first statement raised: the except block
\* of a write handler has rolled back (if conn) and raised HTTPException(500)
Refused(op, app, arg, local, out) ==
    [Idle EXCEPT !.op = op, !.app = app, !.arg = arg, !.local = local,
                 !.pc = "finally", !.conn = (out # "connect"),
                 !.cursor = (out # "connect"),
                 !.tx = IF out = "connect" THEN NoTx ELSE "rolledback",
                 !.exc = Exception(out), !.resp = Error500(Exception(out))]
Opened(out) == IF out = "connect" THEN 0 ELSE 1

\* except Exception as e: if conn: conn.rollback(); raise HTTPException(500)
ExceptRollback(s, out) ==
    /\ cases' = RollbackCases(s)
    /\ documents' = RollbackChildren(s, documents)
    /\ hearings' = RollbackChildren(s, hearings)
    /\ req' = [req EXCEPT ![s].pc = "finally", ![s].tx = "rolledback",
                          ![s].exc = DbError(out), ![s].resp = Error500(DbError(out))]

\* (faulty variant: a failed commit swallowed, success returned all the same)
CommitSwallowed(s, healthy, body) ==
    /\ cases' = IF healthy THEN CommitCases(s) ELSE cases
    /\ documents' = IF healthy THEN CommitChildren(s, documents) ELSE documents
    /\ hearings' = IF healthy THEN CommitChildren(s, hearings) ELSE hearings
    /\ req' = [req EXCEPT ![s].pc = "finally",
                          ![s].tx = IF healthy THEN "committed" ELSE "open",
                          ![s].resp = [code |-> 200, body |-> body]]

\* conn.commit() followed by the handler's return {"success": True, ...}
CommitAndReturn(s, healthy, body) ==
    IF healthy
       THEN /\ cases' = CommitCases(s)
            /\ documents' = CommitChildren(s, documents)
            /\ hearings' = CommitChildren(s, hearings)
            /\ req' = [req EXCEPT ![s].pc = "finally", ![s].tx = "committed",
                                  ![s].resp = [code |-> 200, body |-> body]]
       ELSE ExceptRollback(s, "ORA-03113")

\* (faulty variant: a finally block that closes the cursor only)
finally_cursor_only(s) ==
    /\ req[s].pc = "finally"
    /\ openCursors' = IF req[s].cursor THEN openCursors - 1 ELSE openCursors
    /\ req' = [req EXCEPT ![s] = Idle]
    /\ UNCHANGED <<store, seqs, clock, tables, openConns>>

\* finally: if cursor: cursor.close(); if conn: conn.close() -- and the
\* response (or the HTTPException) reaches the client
finally_close(s) ==
    /\ req[s].pc = "finally"
    /\ openCursors' = IF req[s].cursor THEN openCursors - 1 ELSE openCursors
    /\ openConns' = IF req[s].conn THEN openConns - 1 ELSE openConns
    /\ req' = [req EXCEPT ![s] = Idle]
    /\ UNCHANGED <<store, seqs, clock, tables>>

NoLocal == [none |-> TRUE]

(* ------------------------------ create_case --------------------------- *)
create_case(s, app, case, connected, healthy) ==
    /\ req[s].pc = "idle"
    /\ nextCaseId <= MaxCaseId
    /\ LET out == Outcome(connected, healthy, InsertCaseOutcome) IN
       /\ IF out = "ok"
             THEN /\ cases' = InsertCase(s, case)
                  /\ nextCaseId' = nextCaseId + 1
                  /\ req' = [req EXCEPT ![s] =
                               Entered("create_case", app, case,
                                       [case_id |-> nextCaseId], "commit")]
             ELSE /\ req' = [req EXCEPT ![s] =
                               Refused("create_case", app, case, NoLocal, out)]
                  /\ UNCHANGED <<cases, nextCaseId>>
       /\ openConns' = openConns + Opened(out)
       /\ openCursors' = openCursors + Opened(out)
    /\ UNCHANGED <<documents, hearings, nextDocId, nextHearingId, clock, tables>>

create_case_commit(s, healthy) ==
    /\ req[s].op = "create_case" /\ req[s].pc = "commit"
    /\ CommitAndReturn(s, healthy,
                       [success |-> TRUE, case_id |-> req[s].local.case_id,
                        message |-> "Case created successfully"])
    /\ UNCHANGED <<seqs, clock, tables, openConns, openCursors>>

(* ------------------------------ update_case --------------------------- *)
update_case(s, case_id, case, connected, healthy) ==
    /\ req[s].pc = "idle"
    /\ LET arg == [case_id |-> case_id, case |-> case]
           out == Outcome(connected, healthy, UpdateOutcome(s, case_id)) IN
       /\ out # "wait"
       /\ IF out = "ok"
             THEN /\ cases' = UpdateCaseRows(s, case_id, case)
                  /\ req' = [req EXCEPT ![s] =
                               Entered("update_case", "main", arg, NoLocal, "commit")]
             ELSE /\ req' = [req EXCEPT ![s] =
                               Refused("update_case", "main", arg, NoLocal, out)]
                  /\ UNCHANGED cases
       /\ openConns' = openConns + Opened(out)
       /\ openCursors' = openCursors + Opened(out)
    /\ UNCHANGED <<documents, hearings, seqs, clock, tables>>

update_case_commit(s, healthy) ==
    /\ req[s].op = "update_case" /\ req[s].pc = "commit"
    /\ CommitAndReturn(s, healthy,
                       [success |-> TRUE, message |-> "Case updated successfully"])
    /\ UNCHANGED <<seqs, clock, tables, openConns, openCursors>>

(* --------------------------- update_case_status ----------------------- *)
update_case_status(s, app, case_id, status, connected, healthy) ==
    /\ req[s].pc = "idle"
    /\ LET arg == [case_id |-> case_id, status |-> status]
           out == Outcome(connected, healthy, UpdateOutcome(s, case_id)) IN
       /\ out # "wait"
       /\ IF out = "ok"
             THEN /\ cases' = UpdateStatusRows(s, case_id, status)
                  /\ req' = [req EXCEPT ![s] =
                               Entered("update_case_status", app, arg, NoLocal,
                                       "commit")]
             ELSE /\ req' = [req EXCEPT ![s] =
                               Refused("update_case_status", app, arg, NoLocal, out)]
                  /\ UNCHANGED cases
       /\ openConns' = openConns + Opened(out)
       /\ openCursors' = openCursors + Opened(out)
    /\ UNCHANGED <<documents, hearings, seqs, clock, tables>>

update_case_status_commit(s, healthy) ==
    /\ req[s].op = "update_case_status" /\ req[s].pc = "commit"
    /\ CommitAndReturn(s, healthy,
                       [success |-> TRUE, message |-> "Status updated successfully"])
    /\ UNCHANGED <<seqs, clock, tables, openConns, openCursors>>

(* ------------------------------ delete_case --------------------------- *)
\* main.py: DELETE FROM hearings, then documents, then cases
delete_case(s, case_id, connected, healthy) ==
    /\ req[s].pc = "idle"
    /\ LET arg == [case_id |-> case_id]
           out == Outcome(connected, healthy,
                          DeleteChildrenOutcome(s, "HEARINGS", hearings, case_id)) IN
       /\ out # "wait"
       /\ IF out = "ok"
             THEN /\ hearings' = DeleteChildren(s, hearings, case_id)
                  /\ req' = [req EXCEPT ![s] =
                               Entered("delete_case", "main", arg, NoLocal,
                                       "delete_documents")]
             ELSE /\ req' = [req EXCEPT ![s] =
                               Refused("delete_case", "main", arg, NoLocal, out)]
                  /\ UNCHANGED hearings
       /\ openConns' = openConns + Opened(out)
       /\ openCursors' = openCursors + Opened(out)
    /\ UNCHANGED <<cases, documents, seqs, clock, tables>>

\* app.py: DELETE FROM documents, then cases (it has no hearings)
app_delete_case(s, case_id, connected, healthy) ==
    /\ req[s].pc = "idle"
    /\ LET arg == [case_id |-> case_id]
           out == Outcome(connected, healthy,
                          DeleteChildrenOutcome(s, "DOCUMENTS", documents, case_id)) IN
       /\ out # "wait"
       /\ IF out = "ok"
             THEN /\ documents' = DeleteChildren(s, documents, case_id)
                  /\ req' = [req EXCEPT ![s] =
                               Entered("delete_case", "app", arg, NoLocal,
                                       "delete_cases")]
             ELSE /\ req' = [req EXCEPT ![s] =
                               Refused("delete_case", "app", arg, NoLocal, out)]
                  /\ UNCHANGED documents
       /\ openConns' = openConns + Opened(out)
       /\ openCursors' = openCursors + Opened(out)
    /\ UNCHANGED <<cases, hearings, seqs, clock, tables>>

delete_case_documents(s, healthy) ==
    /\ req[s].op = "delete_case" /\ req[s].pc = "delete_documents"
    /\ LET out == Outcome(TRUE, healthy,
                          DeleteChildrenOutcome(s, "DOCUMENTS", documents,
                                                req[s].arg.case_id)) IN
       /\ out # "wait"
       /\ IF out = "ok"
             THEN /\ documents' = DeleteChildren(s, documents, req[s].arg.case_id)
                  /\ req' = [req EXCEPT ![s].pc = "delete_cases"]
                  /\ UNCHANGED <<cases, hearings>>
             ELSE ExceptRollback(s, out)
    /\ UNCHANGED <<seqs, clock, tables, openConns, openCursors>>

delete_case_cases(s, healthy) ==
    /\ req[s].op = "delete_case" /\ req[s].pc = "delete_cases"
    /\ LET out == Outcome(TRUE, healthy, DeleteCaseOutcome(s, req[s].arg.case_id)) IN
       /\ out # "wait"
       /\ IF out = "ok"
             THEN /\ cases' = DeleteCaseRows(s, req[s].arg.case_id)
                  /\ req' = [req EXCEPT ![s].pc = "commit"]
                  /\ UNCHANGED <<documents, hearings>>
             ELSE ExceptRollback(s, out)
    /\ UNCHANGED <<seqs, clock, tables, openConns, openCursors>>

\* (faulty variant of delete_case_commit: cursor.rowcount checked after the
\* DELETE of the case, and a 404 raised when it deleted no row)
delete_case_commit_checked(s, healthy) ==
    /\ req[s].op = "delete_case" /\ req[s].pc = "commit"
    /\ IF \A r \in cases : r.del_by # s
          THEN /\ cases' = RollbackCases(s)
               /\ documents' = RollbackChildren(s, documents)
               /\ hearings' = RollbackChildren(s, hearings)
               /\ req' = [req EXCEPT ![s].pc = "finally", ![s].tx = "rolledback",
                             ![s].exc = [kind |-> "HTTPException", code |-> 404,
                                         detail |-> "Case not found"],
                             ![s].resp = [code |-> 404, detail |-> "Case not found"]]
          ELSE CommitAndReturn(s, healthy,
                   [success |-> TRUE, message |-> "Case deleted successfully"])
    /\ UNCHANGED <<seqs, clock, tables, openConns, openCursors>>

delete_case_commit(s, healthy) ==
    /\ req[s].op = "delete_case" /\ req[s].pc = "commit"
    /\ CommitAndReturn(s, healthy,
                       [success |-> TRUE, message |-> "Case deleted successfully"])
    /\ UNCHANGED <<seqs, clock, tables, openConns, openCursors>>

(* ---------------------------- upload_document ------------------------- *)
\* the handler's locals content and document_hash are set before it connects
upload_document(s, a, content, connected, healthy) ==
    /\ req[s].pc = "idle"
    /\ nextDocId <= MaxDocId
    /\ LET hash == DocumentHash(a, content)
           local == [content |-> content, document_hash |-> hash]
           out == Outcome(connected, healthy, InsertDocumentOutcome(s, a, hash)) IN
       /\ out # "wait"
       /\ IF out = "ok"
             THEN /\ documents' = InsertDocument(s, a, hash)
                  /\ nextDocId' = nextDocId + 1
                  /\ req' = [req EXCEPT ![s] =
                               Entered("upload_document", "main", a, local, "commit")]
             ELSE /\ req' = [req EXCEPT ![s] =
                               Refused("upload_document", "main", a, local, out)]
                  /\ UNCHANGED <<documents, nextDocId>>
       /\ openConns' = openConns + Opened(out)
       /\ openCursors' = openCursors + Opened(out)
    /\ UNCHANGED <<cases, hearings, nextCaseId, nextHearingId, clock, tables>>

upload_document_commit(s, healthy) ==
    /\ req[s].op = "upload_document" /\ req[s].pc = "commit"
    /\ CommitAndReturn(s, healthy,
                       [success |-> TRUE,
                        document_hash |-> req[s].local.document_hash,
                        message |-> "Document uploaded successfully"])
    /\ UNCHANGED <<seqs, clock, tables, openConns, openCursors>>

(* ----------------------------- create_hearing ------------------------- *)
create_hearing(s, hearing, connected, healthy) ==
    /\ req[s].pc = "idle"
    /\ nextHearingId <= MaxHearingId
    /\ LET out == Outcome(connected, healthy, InsertHearingOutcome(s, hearing)) IN
       /\ out # "wait"
       /\ IF out = "ok"
             THEN /\ hearings' = InsertHearing(s, hearing)
                  /\ nextHearingId' = nextHearingId + 1
                  /\ req' = [req EXCEPT ![s] =
                               Entered("create_hearing", "main", hearing, NoLocal,
                                       "commit")]
             ELSE /\ req' = [req EXCEPT ![s] =
                               Refused("create_hearing", "main", hearing, NoLocal,
                                       out)]
                  /\ UNCHANGED <<hearings, nextHearingId>>
       /\ openConns' = openConns + Opened(out)
       /\ openCursors' = openCursors + Opened(out)
    /\ UNCHANGED <<cases, documents, nextCaseId, nextDocId, clock, tables>>

create_hearing_commit(s, healthy) ==
    /\ req[s].op = "create_hearing" /\ req[s].pc = "commit"
    /\ CommitAndReturn(s, healthy,
                       [success |-> TRUE, message |-> "Hearing added successfully"])
    /\ UNCHANGED <<seqs, clock, tables, openConns, openCursors>>

(* ------------------------------ read handlers ------------------------- *)
\* A read handler runs one SELECT and builds its response from the rows.
SelectOutcome(table) == IF table \in tables THEN "ok" ELSE "ORA-00942"

\* datetime.isoformat(): the text form of a timestamp or date
IsoFormat(ts) == [isoformat |-> ts]

\* (faulty variant: ORDER BY <key> with the DESC left out)
OrderByAsc(rows, key) ==
    {q \in [1..Cardinality(rows) -> rows] :
        \A i, j \in DOMAIN q : i < j => q[i] # q[j] /\ q[i][key] <= q[j][key]}
\* the rows of a SELECT ... ORDER BY <key> DESC: any order the key allows
OrderByDesc(rows, key) ==
    {q \in [1..Cardinality(rows) -> rows] :
        \A i, j \in DOMAIN q : i < j => q[i] # q[j] /\ q[i][key] >= q[j][key]}

\* the handler's locals at its return
Returned(op, app, arg, body) ==
    [Idle EXCEPT !.op = op, !.app = app, !.arg = arg, !.pc = "finally",
                 !.conn = TRUE, !.cursor = TRUE,
                 !.resp = [code |-> 200, body |-> body]]
\* except Exception as e: raise HTTPException(status_code=500, detail=str(e))
Failed(op, app, arg, out) ==
    [Idle EXCEPT !.op = op, !.app = app, !.arg = arg, !.pc = "finally",
                 !.conn = (out # "connect"), !.cursor = (out # "connect"),
                 !.exc = Exception(out), !.resp = Error500(Exception(out))]

\* the seven columns get_all_cases and search_cases select
CaseSummary(row) ==
    [case_id |-> row.case_id, case_title |-> row.case_title,
     client_name |-> row.client_name, lawyer_name |-> row.lawyer_name,
     case_type |-> row.case_type, status |-> row.status,
     created_at |-> IsoFormat(row.created_at)]

get_all_cases(s, app, connected, healthy) ==
    /\ req[s].pc = "idle"
    /\ LET out == Outcome(connected, healthy, SelectOutcome("CASES")) IN
       /\ IF out = "ok"
             THEN \E q \in OrderByDesc(VisibleCases(s), "created_at") :
                     req' = [req EXCEPT ![s] =
                               Returned("get_all_cases", app, NoLocal,
                                        [cases |-> [i \in DOMAIN q |->
                                                       CaseSummary(q[i])]])]
             ELSE req' = [req EXCEPT ![s] = Failed("get_all_cases", app, NoLocal, out)]
       /\ openConns' = openConns + Opened(out)
       /\ openCursors' = openCursors + Opened(out)
    /\ UNCHANGED <<store, seqs, clock, tables>>

(* ------------------------------- get_case ----------------------------- *)
\* the dict get_case builds from the fourteen columns of SELECT *
CaseData(row) == [row EXCEPT !.created_at = IsoFormat(row.created_at)]
NotFound == [kind |-> "HTTPException", code |-> 404, detail |-> "Case not found"]
\* (faulty variant: no "except HTTPException: raise" before the catch-all)
GetCaseCatchAll(exc) == Error500(exc)
\* except HTTPException: raise / except Exception as e: raise HTTPException(500)
GetCaseExcept(exc) ==
    IF exc.kind = "HTTPException" THEN [code |-> exc.code, detail |-> exc.detail]
    ELSE Error500(exc)

get_case(s, app, case_id, connected, healthy) ==
    /\ req[s].pc = "idle"
    /\ LET arg == [case_id |-> case_id]
           out == Outcome(connected, healthy, SelectOutcome("CASES"))
           rows == {r \in VisibleCases(s) : r.case_id = case_id} IN
       /\ IF out # "ok"
             THEN req' = [req EXCEPT ![s] =
                            [Failed("get_case", app, arg, out) EXCEPT
                               !.resp = GetCaseExcept(Exception(out))]]
          ELSE IF rows = {}
             THEN req' = [req EXCEPT ![s] =
                            [Returned("get_case", app, arg, NoLocal) EXCEPT
                               !.exc = NotFound, !.resp = GetCaseExcept(NotFound)]]
          ELSE \E row \in rows :
                  req' = [req EXCEPT ![s] =
                            Returned("get_case", app, arg, CaseData(row))]
       /\ openConns' = openConns + Opened(out)
       /\ openCursors' = openCursors + Opened(out)
    /\ UNCHANGED <<store, seqs, clock, tables>>

(* ----------------------------- search_cases --------------------------- *)
LowerCase == <<"a", "b", "c", "d", "j", "k", "l", "m", "n", "s", "t", "x", "y", "z">>
UpperCase == <<"A", "B", "C", "D", "J", "K", "L", "M", "N", "S", "T", "X", "Y", "Z">>
\* SQL UPPER on one character and on a string (NULL stays NULL)
UpperChar(c) ==
    IF \E i \in DOMAIN LowerCase : LowerCase[i] = c
       THEN UpperCase[CHOOSE i \in DOMAIN LowerCase : LowerCase[i] = c]
       ELSE c
Upper(str) == [i \in DOMAIN str |-> UpperChar(str[i])]

\* SQL LIKE without ESCAPE: % is any run of characters, _ any one character
RECURSIVE LikeMatch(_, _)
LikeMatch(str, pat) ==
    IF pat = << >> THEN str = << >>
    ELSE IF Head(pat) = "%"
       THEN LikeMatch(str, Tail(pat)) \/ (str # << >> /\ LikeMatch(Tail(str), pat))
    ELSE IF str = << >> THEN FALSE
    ELSE IF Head(pat) = "_" THEN LikeMatch(Tail(str), Tail(pat))
    ELSE Head(str) = Head(pat) /\ LikeMatch(Tail(str), Tail(pat))
\* NULL LIKE pat is not true
Like(str, pat) == str # Null /\ LikeMatch(str, pat)

\* search_query = f"%{query}%"
SearchQuery(query) == <<"%">> \o query \o <<"%">>
\* the WHERE clause of search_cases
SearchWhere(row, pat) ==
    \/ Like(Upper(row.case_title), Upper(pat))
    \/ Like(Upper(row.client_name), Upper(pat))
    \/ Like(Upper(row.lawyer_name), Upper(pat))
    \/ Like(Upper(row.case_type), Upper(pat))

search_cases(s, query, connected, healthy) ==
    /\ req[s].pc = "idle"
    /\ LET arg == [query |-> query]
           out == Outcome(connected, healthy, SelectOutcome("CASES"))
           rows == {r \in VisibleCases(s) : SearchWhere(r, SearchQuery(query))} IN
       /\ IF out = "ok"
             THEN \E q \in OrderByDesc(rows, "created_at") :
                     req' = [req EXCEPT ![s] =
                               Returned("search_cases", "main", arg,
                                        [cases |-> [i \in DOMAIN q |->
                                                       CaseSummary(q[i])]])]
             ELSE req' = [req EXCEPT ![s] = Failed("search_cases", "main", arg, out)]
       /\ openConns' = openConns + Opened(out)
       /\ openCursors' = openCursors + Opened(out)
    /\ UNCHANGED <<store, seqs, clock, tables>>

(* ---------------------------- get_case_stats -------------------------- *)
\* SUM(CASE WHEN status = :v THEN 1 ELSE 0 END): NULL over no rows
SqlNull == [null |-> TRUE, value |-> 0]
\* (faulty variant: COUNT(*) where the SUM(CASE ...) should be)
CountAnyStatus(rows, v) ==
    IF rows = {} THEN SqlNull ELSE [null |-> FALSE, value |-> Cardinality(rows)]
SumWhenStatus(rows, v) ==
    IF rows = {} THEN SqlNull
    ELSE [null |-> FALSE, value |-> Cardinality({r \in rows : r.status = v})]
\* row[i] or 0
OrZero(x) == IF x.null THEN 0 ELSE x.value
CaseStats(rows) ==
    [total |-> OrZero([null |-> FALSE, value |-> Cardinality(rows)]),
     active |-> OrZero(SumWhenStatus(rows, "Active")),
     closed |-> OrZero(SumWhenStatus(rows, "Closed")),
     pending |-> OrZero(SumWhenStatus(rows, "Pending"))]

get_case_stats(s, connected, healthy) ==
    /\ req[s].pc = "idle"
    /\ LET out == Outcome(connected, healthy, SelectOutcome("CASES")) IN
       /\ req' = [req EXCEPT ![s] =
                    IF out = "ok"
                       THEN Returned("get_case_stats", "main", NoLocal,
                                     CaseStats(VisibleCases(s)))
                       ELSE Failed("get_case_stats", "main", NoLocal, out)]
       /\ openConns' = openConns + Opened(out)
       /\ openCursors' = openCursors + Opened(out)
    /\ UNCHANGED <<store, seqs, clock, tables>>

(* ------------------- get_documents, verify_document ------------------- *)
DocumentEntry(row) ==
    [doc_id |-> row.doc_id, document_name |-> row.document_name,
     document_hash |-> row.document_hash, document_type |-> row.document_type,
     uploaded_by |-> row.uploaded_by, uploaded_at |-> IsoFormat(row.uploaded_at)]

\* SELECT ... FROM documents WHERE case_id = :1
DocumentsOf(t, case_id) == {r \in VisibleDocuments(t) : r.case_id = case_id}

get_documents(s, case_id, connected, healthy) ==
    /\ req[s].pc = "idle"
    /\ LET arg == [case_id |-> case_id]
           out == Outcome(connected, healthy, SelectOutcome("DOCUMENTS"))
           rows == DocumentsOf(s, case_id) IN
       /\ IF out = "ok"
             THEN \E q \in OrderByDesc(rows, "uploaded_at") :
                     req' = [req EXCEPT ![s] =
                               Returned("get_documents", "main", arg,
                                        [documents |-> [i \in DOMAIN q |->
                                                           DocumentEntry(q[i])]])]
             ELSE req' = [req EXCEPT ![s] = Failed("get_documents", "main", arg, out)]
       /\ openConns' = openConns + Opened(out)
       /\ openCursors' = openCursors + Opened(out)
    /\ UNCHANGED <<store, seqs, clock, tables>>

Verified(row) ==
    [verified |-> TRUE, document_name |-> row.document_name,
     uploaded_by |-> row.uploaded_by, uploaded_at |-> IsoFormat(row.uploaded_at)]
\* (faulty variant: an unknown hash reported as verified)
AlwaysVerified == [verified |-> TRUE, message |-> "Document not found in blockchain"]
NotVerified == [verified |-> FALSE, message |-> "Document not found in blockchain"]

verify_document(s, document_hash, connected, healthy) ==
    /\ req[s].pc = "idle"
    /\ LET arg == [document_hash |-> document_hash]
           out == Outcome(connected, healthy, SelectOutcome("DOCUMENTS"))
           rows == {r \in VisibleDocuments(s) : r.document_hash = document_hash} IN
       /\ IF out # "ok"
             THEN req' = [req EXCEPT ![s] =
                            Failed("verify_document", "main", arg, out)]
          ELSE IF rows = {}
             THEN req' = [req EXCEPT ![s] =
                            Returned("verify_document", "main", arg, NotVerified)]
          ELSE \E row \in rows :
                  req' = [req EXCEPT ![s] =
                            Returned("verify_document", "main", arg, Verified(row))]
       /\ openConns' = openConns + Opened(out)
       /\ openCursors' = openCursors + Opened(out)
    /\ UNCHANGED <<store, seqs, clock, tables>>

(* ------------------------------ get_hearings -------------------------- *)
HearingEntry(row) ==
    [hearing_id |-> row.hearing_id, hearing_date |-> IsoFormat(row.hearing_date),
     hearing_time |-> row.hearing_time, court_name |-> row.court_name,
     notes |-> row.notes, created_at |-> IsoFormat(row.created_at)]

\* (faulty variant: the SELECT without its WHERE clause)
HearingsOfAnyCase(t, case_id) == VisibleHearings(t)
\* SELECT ... FROM hearings WHERE case_id = :1
HearingsOf(t, case_id) == {r \in VisibleHearings(t) : r.case_id = case_id}

get_hearings(s, case_id, connected, healthy) ==
    /\ req[s].pc = "idle"
    /\ LET arg == [case_id |-> case_id]
           out == Outcome(connected, healthy, SelectOutcome("HEARINGS"))
           rows == HearingsOf(s, case_id) IN
       /\ IF out = "ok"
             THEN \E q \in OrderByDesc(rows, "hearing_date") :
                     req' = [req EXCEPT ![s] =
                               Returned("get_hearings", "main", arg,
                                        [hearings |-> [i \in DOMAIN q |->
                                                          HearingEntry(q[i])]])]
             ELSE req' = [req EXCEPT ![s] = Failed("get_hearings", "main", arg, out)]
       /\ openConns' = openConns + Opened(out)
       /\ openCursors' = openCursors + Opened(out)
    /\ UNCHANGED <<store, seqs, clock, tables>>

(* ------------------------------ chat_with_ai -------------------------- *)
NoContext == [none |-> TRUE]
\* (faulty variant: the description left out of the context)
CaseContextShort(row) ==
    [none |-> FALSE, case_title |-> row.case_title, case_type |-> row.case_type,
     description |-> Null]
\* context = f"Case Context - Title: ..., Type: ..., Description: ..."
CaseContext(row) ==
    [none |-> FALSE, case_title |-> row.case_title, case_type |-> row.case_type,
     description |-> row.description]
\* full_prompt: the system prompt, then the parts that are not empty
FullPrompt(context, request) ==
    <<[part |-> "system_prompt", text |-> Null]>>
      \o (IF context.none THEN << >> ELSE <<[part |-> "Context", text |-> context]>>)
      \o (IF request.context = Null THEN << >>
          ELSE <<[part |-> "Additional Context", text |-> request.context]>>)
      \o <<[part |-> "User Query", text |-> request.message]>>
AiError == [kind |-> "HTTPException", code |-> 500, detail |-> "AI Error"]

\* a connection is opened and the case selected only when request.case_id
\* is truthy (0 stands for None, which 0 behaves like)
chat_with_ai(s, app, request, connected, healthy) ==
    /\ req[s].pc = "idle"
    /\ LET out == IF request.case_id = 0 THEN "ok"
                  ELSE Outcome(connected, healthy, SelectOutcome("CASES"))
           rows == {r \in VisibleCases(s) : r.case_id = request.case_id} IN
       /\ IF out # "ok"
             THEN req' = [req EXCEPT ![s] = Failed("chat_with_ai", app, request, out)]
          ELSE IF request.case_id = 0
             THEN req' = [req EXCEPT ![s] =
                            [Idle EXCEPT !.op = "chat_with_ai", !.app = app,
                                         !.arg = request, !.pc = "groq",
                                         !.local = [context |-> NoContext]]]
          ELSE IF rows = {}
             THEN req' = [req EXCEPT ![s] =
                            [Entered("chat_with_ai", app, request,
                                     [context |-> NoContext], "groq")
                               EXCEPT !.tx = NoTx]]
          ELSE \E row \in rows :
                  req' = [req EXCEPT ![s] =
                            [Entered("chat_with_ai", app, request,
                                     [context |-> CaseContext(row)], "groq")
                               EXCEPT !.tx = NoTx]]
       /\ openConns' = openConns + (IF request.case_id = 0 THEN 0 ELSE Opened(out))
       /\ openCursors' = openCursors + (IF request.case_id = 0 THEN 0 ELSE Opened(out))
    /\ UNCHANGED <<store, seqs, clock, tables>>

\* response_text = chat_with_groq(full_prompt); answered is whether the
\* provider answers.  The connection stays open during the call.
chat_with_groq(s, answered) ==
    /\ req[s].op = "chat_with_ai" /\ req[s].pc = "groq"
    /\ LET prompt == FullPrompt(req[s].local.context, req[s].arg) IN
       req' = [req EXCEPT
                 ![s].local = [context |-> req[s].local.context, prompt |-> prompt],
                 ![s].pc = "finally",
                 ![s].exc = IF answered THEN NoExc ELSE AiError,
                 ![s].resp = IF answered
                                THEN [code |-> 200, body |-> [response |-> "text"]]
                                ELSE Error500(AiError)]
    /\ UNCHANGED <<store, seqs, clock, tables, openConns, openCursors>>

(* ---------------- summarize_document, generate_legal_notice ------------ *)
\* the two handlers build a prompt and call chat_with_groq, with no
\* connection to the store; answered is whether the provider answers
summarize_document(s, request, answered) ==
    /\ req[s].pc = "idle"
    /\ req' = [req EXCEPT ![s] =
                 [Idle EXCEPT !.op = "summarize_document", !.app = "main",
                              !.arg = request, !.pc = "finally",
                              !.exc = IF answered THEN NoExc ELSE AiError,
                              !.resp = IF answered
                                          THEN [code |-> 200,
                                                body |-> [summary |-> "text",
                                                          case_id |-> request.case_id]]
                                          ELSE Error500(AiError)]]
    /\ UNCHANGED <<store, seqs, clock, tables, openConns, openCursors>>

generate_legal_notice(s, request, answered) ==
    /\ req[s].pc = "idle"
    /\ req' = [req EXCEPT ![s] =
                 [Idle EXCEPT !.op = "generate_legal_notice", !.app = "main",
                              !.arg = request, !.pc = "finally",
                              !.exc = IF answered THEN NoExc ELSE AiError,
                              !.resp = IF answered
                                          THEN [code |-> 200,
                                                body |-> [notice |-> "text"]]
                                          ELSE Error500(AiError)]]
    /\ UNCHANGED <<store, seqs, clock, tables, openConns, openCursors>>

(* ------------------------------ health_check -------------------------- *)
\* (faulty variant of health_check: the connect is outside the try, so a
\* failed connect leaves the handler as the HTTPException of
\* get_db_connection)
health_check_unguarded(s, app, connected) ==
    /\ req[s].pc = "idle"
    /\ req' = [req EXCEPT ![s] =
                 [Idle EXCEPT !.op = "health_check", !.app = app, !.pc = "finally",
                              !.local = [opened |-> connected],
                              !.exc = IF connected THEN NoExc ELSE ConnFailed,
                              !.resp = IF connected
                                  THEN [code |-> 200,
                                        body |-> [status |-> "running",
                                                  database |-> "connected"]]
                                  ELSE Error500(ConnFailed)]]
    /\ UNCHANGED <<store, seqs, clock, tables, openConns, openCursors>>

\* try: conn = get_db_connection(); conn.close(); db_status = "connected"
\* except: db_status = "disconnected".  The connection is opened and closed
\* within the step; local.opened records whether get_db_connection returned.
health_check(s, app, connected) ==
    /\ req[s].pc = "idle"
    /\ req' = [req EXCEPT ![s] =
                 [Idle EXCEPT !.op = "health_check", !.app = app, !.pc = "finally",
                              !.local = [opened |-> connected],
                              !.resp = [code |-> 200,
                                        body |-> [status |-> "running",
                                                  database |-> IF connected
                                                      THEN "connected"
                                                      ELSE "disconnected"]]]]
    /\ UNCHANGED <<store, seqs, clock, tables, openConns, openCursors>>

(* ------------------------ startup_event, init_database ---------------- *)
\* the tables each entry point's init_database creates, in order
InitTables(app) ==
    IF app = "main" THEN <<"CASES", "DOCUMENTS", "HEARINGS">>
    ELSE <<"CASES", "DOCUMENTS">>
Created(app, n) == {InitTables(app)[i] : i \in 1..n}

\* (faulty variant of startup_event: CREATE TABLE without the user_tables
\* lookup, so the first table that exists already raises ORA-00955)
startup_event_unchecked(s, app, connected, healthy) ==
    /\ req[s].pc = "idle"
    /\ LET names == IF app = "main" THEN <<"CASES", "DOCUMENTS", "HEARINGS">>
                    ELSE <<"CASES", "DOCUMENTS">>
           present == {i \in 1..Len(names) : names[i] \in tables}
           before == IF present = {} THEN Len(names)
                     ELSE (CHOOSE i \in present : \A j \in present : i <= j) - 1
           out == IF ~connected THEN "connect"
                  ELSE IF ~healthy THEN "ORA-03113"
                  ELSE IF present # {} THEN "ORA-00955" ELSE "ok" IN
       /\ IF out = "connect"
             THEN /\ tables' = tables
                  /\ req' = [req EXCEPT ![s] =
                               [Idle EXCEPT !.op = "init_database", !.app = app,
                                            !.pc = "finally", !.exc = ConnFailed]]
             ELSE /\ tables' = tables \cup {names[i] : i \in 1..before}
                  /\ req' = [req EXCEPT ![s] =
                               [Idle EXCEPT !.op = "init_database", !.app = app,
                                   !.pc = "finally", !.conn = TRUE, !.cursor = TRUE,
                                   !.tx = IF out = "ok" THEN "committed"
                                          ELSE "rolledback",
                                   !.exc = IF out = "ok" THEN NoExc
                                           ELSE DbError(out)]]
       /\ openConns' = openConns + (IF out = "connect" THEN 0 ELSE 1)
       /\ openCursors' = openCursors + (IF out = "connect" THEN 0 ELSE 1)
    /\ UNCHANGED <<store, seqs, clock>>

\* init_database: conn = get_db_connection() is outside its try, so a
\* failed connect leaves it at once and startup_event prints it.  Each
\* missing table is created (DDL commits as it runs); a failure after n
\* tables is printed and rolled back, and the tables created so far stay.
startup_event(s, app, connected, healthy) ==
    /\ req[s].pc = "idle"
    /\ LET out == Outcome(connected, healthy, "ok")
           all == Len(InitTables(app)) IN
       /\ IF out = "ok"
             THEN /\ tables' = tables \cup Created(app, all)
                  /\ req' = [req EXCEPT ![s] =
                               [Entered("init_database", app, NoLocal, NoLocal,
                                        "finally") EXCEPT !.tx = "committed"]]
          ELSE IF out = "connect"
             THEN /\ tables' = tables
                  /\ req' = [req EXCEPT ![s] =
                               [Idle EXCEPT !.op = "init_database", !.app = app,
                                            !.pc = "finally", !.exc = ConnFailed]]
          ELSE /\ \E n \in 0..all : tables' = tables \cup Created(app, n)
               /\ req' = [req EXCEPT ![s] =
                            [Entered("init_database", app, NoLocal, NoLocal,
                                     "finally") EXCEPT !.tx = "rolledback",
                                                       !.exc = DbError(out)]]
       /\ openConns' = openConns + Opened(out)
       /\ openCursors' = openCursors + Opened(out)
    /\ UNCHANGED <<store, seqs, clock>>

(* --------------------------------- time ------------------------------- *)
Tick ==
    /\ clock < MaxClock
    /\ clock' = clock + 1
    /\ UNCHANGED <<store, seqs, tables, openConns, openCursors, req>>

(* ------------------------------- requests ----------------------------- *)
Apps == {"main", "app"}
Upload(id) ==
    [case_id |-> id, document_name |-> "deed.pdf", document_type |-> "pdf",
     uploaded_by |-> "clerk"]
\* the same file sent under another name, type and uploader
Upload2(id) ==
    [case_id |-> id, document_name |-> "copy.txt", document_type |-> "txt",
     uploaded_by |-> "lawyer"]
Hearing(id, date) ==
    [case_id |-> id, hearing_date |-> date, hearing_time |-> "10:00",
     court_name |-> "High Court", notes |-> "n"]
Chat(id) == [message |-> "q", case_id |-> id, context |-> Null]
\* a ChatRequest with a context of the caller's
Chat2(id) == [message |-> "q", case_id |-> id, context |-> <<"c">>]
Summarize1 == [case_id |-> 1, document_text |-> "deed"]
Notice1 ==
    [case_type |-> "civil", party_from |-> "J", party_to |-> "K", issue |-> "rent"]
Hashes == {Sha256Hex(c) : c \in Contents}
\* the digest of a content no request uploads
NeverUploaded == Sha256Hex(<<98>>)

Init ==
    /\ cases = {} /\ documents = {} /\ hearings = {}
    /\ nextCaseId = 1 /\ nextDocId = 1 /\ nextHearingId = 1
    /\ clock = 0
    /\ tables = AllTables
    /\ openConns = 0 /\ openCursors = 0
    /\ req = [s \in Workers |-> Idle]

\* the steps of the handlers in flight on worker s
Continue(s) ==
    \/ finally_close(s)
    \/ \E healthy \in BOOLEAN :
        \/ create_case_commit(s, healthy)
        \/ update_case_commit(s, healthy)
        \/ update_case_status_commit(s, healthy)
        \/ delete_case_documents(s, healthy)
        \/ delete_case_cases(s, healthy)
        \/ delete_case_commit(s, healthy)
        \/ upload_document_commit(s, healthy)
        \/ create_hearing_commit(s, healthy)
        \/ chat_with_groq(s, healthy)

\* every handler of the two entry points, one request at a time
Next ==
    \/ Continue("w1")
    \/ \E connected, healthy \in BOOLEAN :
        \/ create_case("w1", "main", Case1, connected, healthy)
        \/ \E id \in CaseIds : update_case("w1", id, Update1, connected, healthy)
        \/ \E id \in CaseIds :
              update_case_status("w1", "main", id, "Closed", connected, healthy)
        \/ \E id \in CaseIds : delete_case("w1", id, connected, healthy)
        \/ \E id \in CaseIds : app_delete_case("w1", id, connected, healthy)
        \/ \E id \in CaseIds, c \in Contents :
              upload_document("w1", Upload(id), c, connected, healthy)
        \/ \E id \in CaseIds, d \in {"2024-01-01", "01/02/2024"} :
              /\ nextHearingId <= FewHearings
              /\ create_hearing("w1", Hearing(id, d), connected, healthy)
        \/ get_all_cases("w1", "main", connected, healthy)
        \/ \E app \in Apps, id \in CaseIds :
              get_case("w1", app, id, connected, healthy)
        \/ search_cases("w1", <<"s">>, connected, healthy)
        \/ get_case_stats("w1", connected, healthy)
        \/ \E id \in CaseIds : get_documents("w1", id, connected, healthy)
        \/ \E h \in Hashes \cup {NeverUploaded} :
              verify_document("w1", h, connected, healthy)
        \/ \E id \in CaseIds : get_hearings("w1", id, connected, healthy)
        \/ \E id \in {0} \cup CaseIds :
              chat_with_ai("w1", "main", Chat(id), connected, healthy)
        \/ \E app \in Apps : health_check("w1", app, connected)
        \/ \E app \in Apps : startup_event("w1", app, connected, healthy)
    \/ \E answered \in BOOLEAN :
        \/ summarize_document("w1", Summarize1, answered)
        \/ generate_legal_notice("w1", Notice1, answered)

Spec == Init /\ [][Next]_vars

\* the handlers that write, on two workers whose statements interleave
NextConcurrent ==
    \E s \in Workers :
        \/ finally_close(s)
        \/ \E healthy \in BOOLEAN :
            \/ create_case_commit(s, healthy)
            \/ update_case_status_commit(s, healthy)
            \/ delete_case_documents(s, healthy)
            \/ delete_case_cases(s, healthy)
            \/ delete_case_commit(s, healthy)
            \/ upload_document_commit(s, healthy)
            \/ create_hearing_commit(s, healthy)
            \/ create_case(s, "main", Case1, TRUE, healthy)
            \/ \E id \in CaseIds :
                  update_case_status(s, "main", id, "Closed", TRUE, healthy)
            \/ \E id \in CaseIds : delete_case(s, id, TRUE, healthy)
            \/ \E id \in CaseIds : app_delete_case(s, id, TRUE, healthy)
            \/ \E id \in CaseIds :
                  upload_document(s, Upload(id), <<97>>, TRUE, healthy)
            \/ \E id \in CaseIds :
                  /\ nextHearingId <= FewHearings
                  /\ create_hearing(s, Hearing(id, "2024-01-01"), TRUE, healthy)

SpecConcurrent == Init /\ [][NextConcurrent]_vars

\* the statuses a StatusUpdate body carries here: two of the named ones,
\* one spelled in lower case and one that is none of the three
Statuses == {"Closed", "Pending", "active", "Archived"}

\* cases created, moved between statuses and deleted, and the overview read
NextStats ==
    \/ finally_close("w1")
    \/ \E healthy \in BOOLEAN :
        \/ create_case_commit("w1", healthy)
        \/ update_case_status_commit("w1", healthy)
        \/ delete_case_documents("w1", healthy)
        \/ delete_case_cases("w1", healthy)
        \/ delete_case_commit("w1", healthy)
        \/ create_case("w1", "main", Case1, TRUE, healthy)
        \/ \E id \in CaseIds, st \in Statuses :
              update_case_status("w1", "main", id, st, TRUE, healthy)
        \/ \E id \in CaseIds : delete_case("w1", id, TRUE, healthy)
        \/ \E connected \in BOOLEAN : get_case_stats("w1", connected, healthy)

SpecStats == Init /\ [][NextStats]_vars

\* the search strings: a letter two cases carry in different fields and
\* cases, a letter only a description carries, two letters in mixed case,
\* and the two characters LIKE reads as wildcards
Queries == {<<"s">>, <<"d">>, <<"a", "B">>, <<"_">>, <<"%">>}

\* cases created and edited as time passes, and searched
NextSearch ==
    \/ Tick
    \/ finally_close("w1")
    \/ \E healthy \in BOOLEAN :
        \/ create_case_commit("w1", healthy)
        \/ update_case_commit("w1", healthy)
        \/ \E case \in {Case1, Case2} : create_case("w1", "main", case, TRUE, healthy)
        \/ \E id \in CaseIds : update_case("w1", id, Update1, TRUE, healthy)
        \/ \E q \in Queries, connected \in BOOLEAN :
              search_cases("w1", q, connected, healthy)

SpecSearch == Init /\ [][NextSearch]_vars

\* a case's records: cases created, documents uploaded and verified,
\* hearings added, cases looked up and deleted through either entry point,
\* with the connect, every statement and every commit able to fail
NextRecords ==
    \/ finally_close("w1")
    \/ \E healthy \in BOOLEAN :
        \/ create_case_commit("w1", healthy)
        \/ upload_document_commit("w1", healthy)
        \/ create_hearing_commit("w1", healthy)
        \/ delete_case_documents("w1", healthy)
        \/ delete_case_cases("w1", healthy)
        \/ delete_case_commit("w1", healthy)
    \/ \E connected, healthy \in BOOLEAN :
        \/ create_case("w1", "main", Case1, connected, healthy)
        \/ \E id \in CaseIds, c \in Contents :
              upload_document("w1", Upload(id), c, connected, healthy)
        \/ \E id \in CaseIds :
              /\ nextHearingId <= FewHearings
              /\ create_hearing("w1", Hearing(id, "2024-01-01"), connected, healthy)
        \/ \E id \in CaseIds : delete_case("w1", id, connected, healthy)
        \/ \E id \in CaseIds : app_delete_case("w1", id, connected, healthy)
        \/ \E app \in Apps, id \in CaseIds :
              get_case("w1", app, id, connected, healthy)
        \/ \E h \in Hashes \cup {NeverUploaded} :
              verify_document("w1", h, connected, healthy)

SpecRecords == Init /\ [][NextRecords]_vars

\* the list of cases: cases created as time passes, closed and deleted,
\* and listed through either entry point
NextCaseList ==
    \/ Tick
    \/ finally_close("w1")
    \/ \E healthy \in BOOLEAN :
        \/ create_case_commit("w1", healthy)
        \/ update_case_status_commit("w1", healthy)
        \/ delete_case_documents("w1", healthy)
        \/ delete_case_cases("w1", healthy)
        \/ delete_case_commit("w1", healthy)
        \/ create_case("w1", "main", Case1, TRUE, healthy)
        \/ \E id \in CaseIds :
              update_case_status("w1", "main", id, "Closed", TRUE, healthy)
        \/ \E id \in CaseIds : delete_case("w1", id, TRUE, healthy)
        \/ \E app \in Apps, connected \in BOOLEAN :
              get_all_cases("w1", app, connected, healthy)

SpecCaseList == Init /\ [][NextCaseList]_vars

\* the lists of a case: cases created and hearings set, then documents
\* uploaded as time passes, and the two lists read, for cases that exist
\* and ids that do not
NextCaseRows ==
    \/ Tick
    \/ finally_close("w1")
    \/ clock = 0 /\ create_case("w1", "main", Case1, TRUE, TRUE)
    \/ create_case_commit("w1", TRUE)
    \/ upload_document_commit("w1", TRUE)
    \/ create_hearing_commit("w1", TRUE)
    \/ \E id \in CaseIds, c \in Contents :
          upload_document("w1", Upload(id), c, TRUE, TRUE)
    \/ \E id \in CaseIds, d \in {"2024-01-01", "2024-01-02"} :
          clock = 0 /\ create_hearing("w1", Hearing(id, d), TRUE, TRUE)
    \/ \E id \in CaseIds, connected, healthy \in BOOLEAN :
        \/ get_documents("w1", id, connected, healthy)
        \/ get_hearings("w1", id, connected, healthy)

SpecCaseRows == Init /\ [][NextCaseRows]_vars

\* statuses a caller sets, the empty one among them
NewStatuses == {"Closed", ""}
\* cases edited: cases created, with a document and a hearing, their fields
\* and their status replaced through either entry point, for ids with and
\* without a row, with the connect, the UPDATE and the commit able to fail
NextUpdates ==
    \/ finally_close("w1")
    \/ create_case_commit("w1", TRUE)
    \/ upload_document_commit("w1", TRUE)
    \/ create_hearing_commit("w1", TRUE)
    \/ create_case("w1", "main", Case1, TRUE, TRUE)
    \/ \E id \in CaseIds : upload_document("w1", Upload(id), <<97>>, TRUE, TRUE)
    \/ \E id \in CaseIds :
          /\ nextHearingId <= FewHearings
          /\ create_hearing("w1", Hearing(id, "2024-01-01"), TRUE, TRUE)
    \/ \E healthy \in BOOLEAN :
        \/ update_case_commit("w1", healthy)
        \/ update_case_status_commit("w1", healthy)
    \/ \E id \in CaseIds, connected, healthy \in BOOLEAN :
        \/ update_case("w1", id, Update1, connected, healthy)
        \/ \E app \in Apps, status \in NewStatuses :
              update_case_status("w1", app, id, status, connected, healthy)

SpecUpdates == Init /\ [][NextUpdates]_vars

\* cases created by two workers and read back at once, next to a document,
\* with the connect, the INSERT and the commit able to fail
NextCreate ==
    \/ upload_document_commit("w1", TRUE)
    \/ \E id \in CaseIds : upload_document("w1", Upload(id), <<97>>, TRUE, TRUE)
    \/ \E s \in Workers :
        \/ finally_close(s)
        \/ \E healthy \in BOOLEAN : create_case_commit(s, healthy)
        \/ \E case \in {Case1, Case2}, connected, healthy \in BOOLEAN :
              create_case(s, "main", case, connected, healthy)
        \/ \E id \in CaseIds : get_case(s, "main", id, TRUE, TRUE)

SpecCreate == Init /\ [][NextCreate]_vars

\* cases created and deleted by two workers, with the INSERT, the DELETEs
\* and the commits able to fail
NextIds ==
    \E s \in Workers :
        \/ finally_close(s)
        \/ \E healthy \in BOOLEAN :
            \/ create_case_commit(s, healthy)
            \/ delete_case_documents(s, healthy)
            \/ delete_case_cases(s, healthy)
            \/ delete_case_commit(s, healthy)
            \/ create_case(s, "main", Case1, TRUE, healthy)
        \/ \E id \in CaseIds : delete_case(s, id, TRUE, TRUE)

SpecIds == Init /\ [][NextIds]_vars

\* files uploaded by two workers whose statements interleave, the same
\* and different contents under the same and different cases and names,
\* with the connect, the INSERT and the commit able to fail
NextUploads ==
    \E s \in Workers :
        \/ finally_close(s)
        \/ create_case(s, "main", Case1, TRUE, TRUE)
        \/ create_case_commit(s, TRUE)
        \/ \E healthy \in BOOLEAN : upload_document_commit(s, healthy)
        \/ \E id \in CaseIds, c \in Contents, connected, healthy \in BOOLEAN :
              \E a \in {Upload(id), Upload2(id)} :
                 upload_document(s, a, c, connected, healthy)

SpecUploads == Init /\ [][NextUploads]_vars

\* the assistant asked through either entry point, with no case id (0), the
\* id of a case and an id of no case, with and without a context of the
\* caller's, while cases are created and edited; the connect, the SELECT and
\* the provider able to fail
NextChat ==
    \/ finally_close("w1")
    \/ create_case_commit("w1", TRUE)
    \/ update_case_commit("w1", TRUE)
    \/ \E case \in {Case1, Case2} : create_case("w1", "main", case, TRUE, TRUE)
    \/ \E id \in CaseIds : update_case("w1", id, Update1, TRUE, TRUE)
    \/ \E answered \in BOOLEAN : chat_with_groq("w1", answered)
    \/ \E app \in Apps, id \in {0} \cup CaseIds, connected, healthy \in BOOLEAN :
          \E request \in {Chat(id), Chat2(id)} :
             chat_with_ai("w1", app, request, connected, healthy)

SpecChat == Init /\ [][NextChat]_vars

\* main.py's delete_case on one worker against the inserts of the other:
\* every statement of one may fall between two statements of the other
NextRace ==
    \E s \in Workers :
        \/ finally_close(s)
        \/ create_case(s, "main", Case1, TRUE, TRUE)
        \/ create_case_commit(s, TRUE)
        \/ delete_case_documents(s, TRUE)
        \/ delete_case_cases(s, TRUE)
        \/ delete_case_commit(s, TRUE)
        \/ upload_document_commit(s, TRUE)
        \/ create_hearing_commit(s, TRUE)
        \/ \E id \in CaseIds : delete_case(s, id, TRUE, TRUE)
        \/ \E id \in CaseIds : upload_document(s, Upload(id), <<97>>, TRUE, TRUE)
        \/ \E id \in CaseIds :
              /\ nextHearingId <= FewHearings
              /\ create_hearing(s, Hearing(id, "2024-01-01"), TRUE, TRUE)

SpecRace == Init /\ [][NextRace]_vars

\* the five endpoints both entry points serve, each through either one,
\* over cases that have documents and hearings (added through main.py)
NextEntryPoints ==
    \/ finally_close("w1")
    \/ create_case_commit("w1", TRUE)
    \/ update_case_status_commit("w1", TRUE)
    \/ upload_document_commit("w1", TRUE)
    \/ create_hearing_commit("w1", TRUE)
    \/ delete_case_documents("w1", TRUE)
    \/ delete_case_cases("w1", TRUE)
    \/ delete_case_commit("w1", TRUE)
    \/ \E id \in CaseIds : upload_document("w1", Upload(id), <<97>>, TRUE, TRUE)
    \/ \E id \in CaseIds :
          /\ nextHearingId <= FewHearings
          /\ create_hearing("w1", Hearing(id, "2024-01-01"), TRUE, TRUE)
    \/ \E id \in CaseIds, connected \in BOOLEAN :
          \/ delete_case("w1", id, connected, TRUE)
          \/ app_delete_case("w1", id, connected, TRUE)
    \/ \E app \in Apps, connected \in BOOLEAN :
          \/ create_case("w1", app, Case1, connected, TRUE)
          \/ get_all_cases("w1", app, connected, TRUE)
          \/ \E id \in CaseIds :
                \/ get_case("w1", app, id, connected, TRUE)
                \/ update_case_status("w1", app, id, "Closed", connected, TRUE)

SpecEntryPoints == Init /\ [][NextEntryPoints]_vars

\* one file uploaded, verified, removed with its case by the delete_case of
\* either entry point, and uploaded again to another case
NextReupload ==
    \/ finally_close("w1")
    \/ create_case("w1", "main", Case1, TRUE, TRUE)
    \/ create_case_commit("w1", TRUE)
    \/ upload_document_commit("w1", TRUE)
    \/ delete_case_documents("w1", TRUE)
    \/ delete_case_cases("w1", TRUE)
    \/ delete_case_commit("w1", TRUE)
    \/ \E id \in CaseIds : delete_case("w1", id, TRUE, TRUE)
    \/ \E id \in CaseIds : app_delete_case("w1", id, TRUE, TRUE)
    \/ \E id \in CaseIds, connected \in BOOLEAN :
          \E a \in {Upload(id), Upload2(id)} :
             upload_document("w1", a, <<97>>, connected, TRUE)
    \/ \E h \in {Sha256Hex(<<97>>), NeverUploaded}, connected \in BOOLEAN :
          verify_document("w1", h, connected, TRUE)

SpecReupload == Init /\ [][NextReupload]_vars

\* cases created, edited, closed and given documents and hearings while
\* time passes
NextCaseKeys ==
    \/ Tick
    \/ finally_close("w1")
    \/ create_case_commit("w1", TRUE)
    \/ upload_document_commit("w1", TRUE)
    \/ create_hearing_commit("w1", TRUE)
    \/ update_case_status_commit("w1", TRUE)
    \/ update_case_commit("w1", TRUE)
    \/ create_case("w1", "main", Case1, TRUE, TRUE)
    \/ upload_document("w1", Upload(1), <<97>>, TRUE, TRUE)
    \/ /\ nextHearingId <= FewHearings
       /\ create_hearing("w1", Hearing(1, "2024-01-01"), TRUE, TRUE)
    \/ \E id \in CaseIds : update_case("w1", id, Update1, TRUE, TRUE)
    \/ \E id \in CaseIds : update_case_status("w1", "main", id, "Closed", TRUE, TRUE)

SpecCaseKeys == Init /\ [][NextCaseKeys]_vars

\* the schema before either entry point has started: no table exists yet
InitEmptySchema ==
    /\ cases = {} /\ documents = {} /\ hearings = {}
    /\ nextCaseId = 1 /\ nextDocId = 1 /\ nextHearingId = 1
    /\ clock = 0
    /\ tables = {}
    /\ openConns = 0 /\ openCursors = 0
    /\ req = [s \in Workers |-> Idle]

\* start-ups of either entry point over a schema that fills up, the health
\* probe, and handlers that write and read the tables once they exist
NextStartup ==
    \/ finally_close("w1")
    \/ create_case_commit("w1", TRUE)
    \/ upload_document_commit("w1", TRUE)
    \/ create_case("w1", "main", Case1, TRUE, TRUE)
    \/ get_all_cases("w1", "main", TRUE, TRUE)
    \/ \E id \in CaseIds, c \in Contents :
          upload_document("w1", Upload(id), c, TRUE, TRUE)
    \/ \E app \in Apps, connected \in BOOLEAN : health_check("w1", app, connected)
    \/ \E app \in Apps, connected, healthy \in BOOLEAN :
          startup_event("w1", app, connected, healthy)

SpecStartup == InitEmptySchema /\ [][NextStartup]_vars

(* ============================== properties ============================ *)
\* the committed rows of each table, whatever open transactions did to them
CommittedCases == {r.cols : r \in {x \in cases : x.ins_by = NoTx}}
CommittedDocuments == {r.cols : r \in {x \in documents : x.ins_by = NoTx}}
CommittedHearings == {r.cols : r \in {x \in hearings : x.ins_by = NoTx}}
Committed == <<CommittedCases, CommittedDocuments, CommittedHearings>>
\* the committed rows of the three tables that carry case id
RowsOf(id) ==
    {r \in CommittedCases \cup CommittedDocuments \cup CommittedHearings :
        r.case_id = id}
\* rows the open transaction of worker s has written
Pending(s) ==
    {r \in cases : s \in {r.ins_by, r.del_by, r.upd_by}}
      \cup {r \in documents \cup hearings : s \in {r.ins_by, r.del_by}}
\* worker s has finished handler op: its response is on its way out
Finished(s, op) == req[s].op = op /\ req[s].pc = "finally"
\* the store or the connection failed the handler (no constraint did)
StoreFailed(s) == req[s].exc.detail \in {ConnFailed.detail, "ORA-03113"}


\* C1: main.py's delete_case is all-or-nothing.  Every step of the handler
\* leaves the committed rows as they are, except its commit, which in that
\* one step removes the case row and every document and hearing row of the
\* case and nothing else; when it answers success no committed row of the
\* case is left, and when it answers 500 (a DELETE or the commit failed) its
\* transaction is rolled back: no row keeps a mark of it and the committed
\* rows are those of before the call.
C1_DeleteAllOrNothing ==
    [][\A s \in Workers, id \in CaseIds :
         (/\ req'[s] # req[s] /\ req'[s].op = "delete_case" /\ req'[s].app = "main"
          /\ req'[s].arg.case_id = id) =>
            /\ \/ Committed' = Committed
               \/ /\ req[s].pc = "commit" /\ req'[s].resp.code = 200
                  /\ CommittedCases' = {r \in CommittedCases : r.case_id # id}
                  /\ CommittedDocuments' = {r \in CommittedDocuments : r.case_id # id}
                  /\ CommittedHearings' = {r \in CommittedHearings : r.case_id # id}
            /\ req'[s].resp.code = 200 => RowsOf(id)' = {} /\ Pending(s)' = {}
            /\ req'[s].resp.code = 500 => Committed' = Committed /\ Pending(s)' = {}
      ]_vars
\* a main.py delete_case of a case with a document and a hearing has failed
\* after deleting them, and all three rows are in the store
C1_Witness ==
    \E s \in Workers :
        /\ Finished(s, "delete_case") /\ req[s].app = "main"
        /\ req[s].resp.code = 500 /\ req[s].tx = "rolledback"
        /\ \E c \in CommittedCases, d \in CommittedDocuments, h \in CommittedHearings :
              /\ c.case_id = req[s].arg.case_id
              /\ d.case_id = c.case_id /\ h.case_id = c.case_id
        /\ Pending(s) = {}

\* C2: document hashes are unique across the whole store.  No two document
\* rows ever share a document_hash, and an upload_document whose content
\* hashes to the hash of a stored document, of the same case or another,
\* fails with 500 and leaves the documents table as it was: one row with
\* that hash.
C2_HashUnique ==
    [][/\ \A d, e \in documents' :
            d.cols.document_hash = e.cols.document_hash => d = e
       /\ \A s \in Workers :
            (/\ req[s].pc = "idle" /\ req'[s].op = "upload_document"
             /\ \E d \in CommittedDocuments :
                   d.document_hash = req'[s].local.document_hash) =>
               /\ req'[s].pc = "finally" /\ req'[s].resp.code = 500
               /\ documents' = documents
               /\ Cardinality({d \in CommittedDocuments' :
                     d.document_hash = req'[s].local.document_hash}) = 1
      ]_vars
\* an upload was refused for its hash, which a document of another case has
C2_Witness ==
    \E s \in Workers :
        /\ Finished(s, "upload_document")
        /\ req[s].exc.detail = "ORA-00001" /\ req[s].resp.code = 500
        /\ \E d \in CommittedDocuments :
              /\ d.document_hash = req[s].local.document_hash
              /\ d.case_id # req[s].arg.case_id

\* C3: no orphaned rows.  Whatever the workers' create_case, upload_document,
\* create_hearing, update_case_status and delete_case (of either entry
\* point) have done and however their statements interleaved, every
\* document row and every hearing row references a case row: among the
\* committed rows, and among the rows any worker's transaction reads.
C3_NoOrphans ==
    /\ \A r \in CommittedDocuments \cup CommittedHearings :
          \E c \in CommittedCases : c.case_id = r.case_id
    /\ \A s \in Workers :
          \A r \in VisibleDocuments(s) \cup VisibleHearings(s) :
             \E c \in VisibleCases(s) : c.case_id = r.case_id
\* the race that could orphan a row: one worker's delete_case has deleted
\* the hearings and documents it sees and is about to delete the case,
\* while the other's upload_document has inserted a document of that case
\* and not committed yet
C3_Witness ==
    \E s, t \in Workers :
        /\ req[s].op = "delete_case" /\ req[s].pc = "delete_cases"
        /\ req[t].op = "upload_document" /\ req[t].pc = "commit"
        /\ req[t].arg.case_id = req[s].arg.case_id
        /\ \E d \in documents : d.ins_by = t /\ d.cols.case_id = req[s].arg.case_id
        /\ \E c \in CommittedCases : c.case_id = req[s].arg.case_id

\* C4: deletion cascades to all related data, for the delete_case of either
\* entry point: unless the store or the connection itself fails, a
\* delete_case answers success, and no committed case, document or hearing
\* row with that case id remains.
C4_DeleteCascades ==
    \A s \in Workers :
        (Finished(s, "delete_case") /\ ~StoreFailed(s)) =>
            /\ req[s].resp.code = 200
            /\ RowsOf(req[s].arg.case_id) = {}

\* C5: get_case of either entry point answers 200 with the full record of
\* the case when a case row with that id exists, and 404 "Case not found"
\* when none does: the HTTPException raised inside the try block leaves the
\* handler as it was raised.  It answers 500 only when the connect or the
\* SELECT failed.
C5_GetCase ==
    \A s \in Workers :
        Finished(s, "get_case") =>
            LET rows == {r \in CommittedCases : r.case_id = req[s].arg.case_id} IN
            /\ StoreFailed(s) <=> req[s].resp.code = 500
            /\ (~StoreFailed(s) /\ rows # {}) =>
                  /\ req[s].resp.code = 200
                  /\ \E r \in rows : req[s].resp.body = CaseData(r)
            /\ (~StoreFailed(s) /\ rows = {}) =>
                  /\ req[s].exc = NotFound
                  /\ req[s].resp = [code |-> 404, detail |-> "Case not found"]
\* get_case has answered 404 for an id that is not in a store that has cases
C5_Witness ==
    \E s \in Workers :
        /\ Finished(s, "get_case") /\ req[s].resp.code = 404
        /\ CommittedCases # {}
        /\ \A r \in CommittedCases : r.case_id # req[s].arg.case_id

\* C6: verify_document answers verified = true exactly when a document row
\* with the hash is in the store, under whatever case, and verified = false
\* with status 200 and no exception otherwise; it answers 500 only when
\* the connect or the SELECT failed.
C6_VerifyDocument ==
    \A s \in Workers :
        Finished(s, "verify_document") =>
            LET found == \E d \in CommittedDocuments :
                            d.document_hash = req[s].arg.document_hash IN
            /\ StoreFailed(s) <=> req[s].resp.code = 500
            /\ ~StoreFailed(s) =>
                  /\ req[s].resp.code = 200 /\ req[s].exc = NoExc
                  /\ req[s].resp.body.verified <=> found
\* a hash no upload produced was verified against a store that has documents
C6_Witness ==
    \E s \in Workers :
        /\ Finished(s, "verify_document")
        /\ req[s].arg.document_hash = NeverUploaded
        /\ CommittedDocuments # {}
        /\ req[s].resp.code = 200 /\ req[s].exc = NoExc
        /\ ~req[s].resp.body.verified

\* C7: a write failure is never reported as success and leaves no partial
\* write.  For each of the six write handlers: it answers 200 or 500; it
\* answers 200 with success = true only in the step in which its commit
\* completes, and the committed rows change in no other step; when a
\* statement or the commit raises, the handler's transaction is rolled back
\* (no row keeps a mark of it, the committed rows are as before) and the
\* answer is 500.
WriteOps ==
    {"create_case", "update_case", "update_case_status", "delete_case",
     "upload_document", "create_hearing"}
C7_WriteFailure ==
    [][\A s \in Workers :
         (req'[s] # req[s] /\ req'[s].op \in WriteOps) =>
            /\ Committed' # Committed =>
                  /\ req[s].pc = "commit" /\ req'[s].tx = "committed"
                  /\ req'[s].resp.code = 200
            /\ req'[s].resp.code = 200 =>
                  /\ req[s].pc = "commit" /\ req'[s].tx = "committed"
                  /\ req'[s].exc = NoExc /\ req'[s].resp.body.success
                  /\ Pending(s)' = {}
            /\ req'[s].exc # NoExc =>
                  /\ req'[s].pc = "finally" /\ req'[s].resp.code = 500
                  /\ req'[s].tx = IF req'[s].conn THEN "rolledback" ELSE NoTx
                  /\ Pending(s)' = {} /\ Committed' = Committed
            /\ req'[s].pc = "finally" => req'[s].resp.code \in {200, 500}
      ]_vars
\* create_case inserted its row and got an id, the commit failed, and the
\* handler answered 500 with the row gone
C7_Witness ==
    \E s \in Workers :
        /\ Finished(s, "create_case") /\ "case_id" \in DOMAIN req[s].local
        /\ req[s].resp.code = 500 /\ req[s].tx = "rolledback"
        /\ \A r \in cases : r.cols.case_id # req[s].local.case_id

\* C8: every connection and cursor is released on every exit path.  The
\* connections (cursors) open are exactly those of the handlers in flight
\* that hold one, a worker that is idle holds none, and so with no request
\* in flight the number of open connections and cursors is zero.
C8_ConnectionsReleased ==
    /\ openConns = Cardinality({s \in Workers : req[s].conn})
    /\ openCursors = Cardinality({s \in Workers : req[s].cursor})
    /\ \A s \in Workers : req[s].pc = "idle" => ~req[s].conn /\ ~req[s].cursor
    /\ (\A s \in Workers : req[s].pc = "idle") => openConns = 0 /\ openCursors = 0
\* no request is in flight and none holds a connection, after handlers that
\* committed a case and a document and used up an id on a failed write
C8_Witness ==
    /\ \A s \in Workers : req[s].pc = "idle"
    /\ openConns = 0 /\ openCursors = 0
    /\ CommittedDocuments # {}
    /\ nextCaseId > 1 + Cardinality(CommittedCases)

\* C9: get_case_stats answers total = the number of case rows and active /
\* closed / pending = the number of case rows whose status is exactly
\* 'Active' / 'Closed' / 'Pending'; a case of any other status counts in
\* total alone, so the three never add up to more than total, and over an
\* empty table all four are 0.
C9_Stats ==
    \A s \in Workers :
        (Finished(s, "get_case_stats") /\ req[s].resp.code = 200) =>
            LET body == req[s].resp.body
                Count(v) == Cardinality({r \in CommittedCases : r.status = v}) IN
            /\ body.total = Cardinality(CommittedCases)
            /\ body.active = Count("Active")
            /\ body.closed = Count("Closed")
            /\ body.pending = Count("Pending")
            /\ body.active + body.closed + body.pending <= body.total
            /\ CommittedCases = {} => body = [total |-> 0, active |-> 0,
                                              closed |-> 0, pending |-> 0]
\* the overview of two cases, one of them of a status outside the three
C9_Witness ==
    \E s \in Workers :
        /\ Finished(s, "get_case_stats") /\ req[s].resp.code = 200
        /\ req[s].resp.body.total = 2
        /\ \E r \in CommittedCases : r.status \notin {"Active", "Closed", "Pending"}
        /\ req[s].resp.body.active + req[s].resp.body.closed
             + req[s].resp.body.pending = 1

\* C10: search_cases answers exactly the cases for which the query is a
\* case-insensitive substring of the title, the client name, the lawyer
\* name or the case type, each once, newest first -- for every query,
\* those with '%' and '_' in them included.
Contains(str, sub) ==
    \E i \in 0..(Len(str) - Len(sub)) : SubSeq(str, i + 1, i + Len(sub)) = sub
SearchedColumns == {"case_title", "client_name", "lawyer_name", "case_type"}
IsSubstringMatch(row, query) ==
    \E f \in SearchedColumns : row[f] # Null /\ Contains(Upper(row[f]), Upper(query))
C10_SearchSubstring ==
    \A s \in Workers :
        (Finished(s, "search_cases") /\ req[s].resp.code = 200) =>
            LET out == req[s].resp.body.cases
                hits == {r \in CommittedCases : IsSubstringMatch(r, req[s].arg.query)} IN
            /\ {out[i].case_id : i \in DOMAIN out} = {r.case_id : r \in hits}
            /\ Len(out) = Cardinality(hits)
            /\ \A i, j \in DOMAIN out :
                  i < j => out[i].created_at.isoformat >= out[j].created_at.isoformat

\* (C10, the part the code does implement) for a query with neither '%'
\* nor '_' in it, search_cases answers exactly the substring matches
C10_PlainQueries ==
    \A s \in Workers :
        (/\ Finished(s, "search_cases") /\ req[s].resp.code = 200
         /\ \A i \in DOMAIN req[s].arg.query : req[s].arg.query[i] \notin {"%", "_"}) =>
            LET out == req[s].resp.body.cases
                hits == {r \in CommittedCases : IsSubstringMatch(r, req[s].arg.query)} IN
            /\ {out[i].case_id : i \in DOMAIN out} = {r.case_id : r \in hits}
            /\ Len(out) = Cardinality(hits)
            /\ \A i, j \in DOMAIN out :
                  i < j => out[i].created_at.isoformat >= out[j].created_at.isoformat

\* C11: get_all_cases, of either entry point, answers every case row exactly
\* once, as its seven listed columns, with creation timestamps that never
\* increase from one entry to the next, whatever creates, status updates
\* and deletes came before.
C11_AllCasesListed ==
    \A s \in Workers :
        (Finished(s, "get_all_cases") /\ req[s].resp.code = 200) =>
            LET out == req[s].resp.body.cases IN
            /\ Len(out) = Cardinality(CommittedCases)
            /\ {out[i] : i \in DOMAIN out} = {CaseSummary(r) : r \in CommittedCases}
            /\ \A i, j \in DOMAIN out :
                  i < j => out[i].created_at.isoformat >= out[j].created_at.isoformat
\* two cases created at different times, one of them since closed, listed
\* newest first
C11_Witness ==
    \E s \in Workers :
        /\ Finished(s, "get_all_cases") /\ req[s].resp.code = 200
        /\ Len(req[s].resp.body.cases) = 2
        /\ req[s].resp.body.cases[1].created_at.isoformat
             > req[s].resp.body.cases[2].created_at.isoformat
        /\ \E i \in 1..2 : req[s].resp.body.cases[i].status = "Closed"

\* the committed case rows other than the one with case id
OtherCases(id) == {r \in CommittedCases : r.case_id # id}
\* worker s commits handler op in this step and answers success
Commits(s, op) ==
    /\ req[s].op = op /\ req[s].pc = "commit"
    /\ req'[s].pc = "finally" /\ req'[s].resp.code = 200

\* C12: update_case changes the committed rows in one step only, its
\* commit, and there it replaces the eight mutable columns of the case with
\* that id by what the store holds for the supplied fields, and leaves that
\* case's case_id, status, client_wallet, lawyer_wallet, blockchain_tx and
\* created_at, every other case row and every document and hearing row as
\* they were.
C12_UpdateCaseFrame ==
    [][\A s \in Workers :
         (req'[s] # req[s] /\ req'[s].op = "update_case") =>
            IF Commits(s, "update_case")
               THEN LET id == req[s].arg.case_id IN
                    /\ CommittedDocuments' = CommittedDocuments
                    /\ CommittedHearings' = CommittedHearings
                    /\ OtherCases(id)' = OtherCases(id)
                    /\ Cardinality(CommittedCases') = Cardinality(CommittedCases)
                    /\ \A old \in CommittedCases :
                          old.case_id = id =>
                             \E new \in CommittedCases' :
                                /\ \A col \in MutableColumns :
                                      new[col] = ToColumn(req[s].arg.case[col])
                                /\ \A col \in (DOMAIN old) \ MutableColumns :
                                      new[col] = old[col]
               ELSE Committed' = Committed
      ]_vars
\* update_case has answered success for a closed case that has a document
\* and a hearing, next to another case: the case carries the new title and
\* is still closed
C12_Witness ==
    \E s \in Workers :
        /\ Finished(s, "update_case") /\ req[s].resp.code = 200
        /\ \E r \in CommittedCases :
              /\ r.case_id = req[s].arg.case_id
              /\ r.case_title = Update1.case_title /\ r.client_address = Null
              /\ r.status = "Closed"
              /\ \E d \in CommittedDocuments : d.case_id = r.case_id
              /\ \E h \in CommittedHearings : h.case_id = r.case_id
        /\ \E r \in CommittedCases : r.case_id # req[s].arg.case_id

\* C13: update_case_status, of either entry point, changes the committed
\* rows in its commit only, and there it sets the status of the case with
\* that id to the string the caller supplied, whatever the string, and
\* leaves every other column of that case, every other case and every
\* document and hearing row as they were.
C13_StatusOnly ==
    [][\A s \in Workers :
         (req'[s] # req[s] /\ req'[s].op = "update_case_status") =>
            IF Commits(s, "update_case_status")
               THEN LET id == req[s].arg.case_id IN
                    /\ CommittedDocuments' = CommittedDocuments
                    /\ CommittedHearings' = CommittedHearings
                    /\ OtherCases(id)' = OtherCases(id)
                    /\ Cardinality(CommittedCases') = Cardinality(CommittedCases)
                    /\ \A old \in CommittedCases :
                          old.case_id = id =>
                             [old EXCEPT !.status = req[s].arg.status]
                                \in CommittedCases'
               ELSE Committed' = Committed
      ]_vars

\* (C13, the part the code does implement) the same with the status the
\* store holds for the supplied string: the string itself, NULL for the
\* empty one
C13_StoredStatus ==
    [][\A s \in Workers :
         (req'[s] # req[s] /\ req'[s].op = "update_case_status") =>
            IF Commits(s, "update_case_status")
               THEN LET id == req[s].arg.case_id IN
                    /\ CommittedDocuments' = CommittedDocuments
                    /\ CommittedHearings' = CommittedHearings
                    /\ OtherCases(id)' = OtherCases(id)
                    /\ Cardinality(CommittedCases') = Cardinality(CommittedCases)
                    /\ \A old \in CommittedCases :
                          old.case_id = id =>
                             [old EXCEPT !.status = StatusToColumn(req[s].arg.status)]
                                \in CommittedCases'
               ELSE Committed' = Committed
      ]_vars

\* C14: update_case and update_case_status called with a case id that no
\* row carries leave every committed row as it was and create none, and
\* answer success: true -- the only other answer is the 500 of a failed
\* connection or a failed store, never one for the missing row.
C14_MissingCaseSucceeds ==
    [][\A s \in Workers :
         (/\ req'[s] # req[s]
          /\ req'[s].op \in {"update_case", "update_case_status"}
          /\ \A r \in CommittedCases : r.case_id # req'[s].arg.case_id) =>
            /\ Committed' = Committed
            /\ cases' = cases
            /\ req'[s].pc = "finally" =>
                  \/ /\ req'[s].resp.code = 200 /\ req'[s].resp.body.success
                     /\ req'[s].exc = NoExc
                  \/ /\ req'[s].resp.code = 500 /\ StoreFailed(s)'
      ]_vars
\* both handlers have answered success for a case id of no row, one of
\* them with the other case in the store
C14_Witness ==
    \E s \in Workers :
        /\ Finished(s, "update_case_status") /\ req[s].resp.code = 200
        /\ \A r \in CommittedCases : r.case_id # req[s].arg.case_id
        /\ CommittedCases # {}

\* the fields of a CaseCreate body
CaseFields == DOMAIN Case1
\* worker u has read back, with success, the case worker s has just created
ReadBack(s, u) ==
    /\ Finished(s, "create_case") /\ req[s].resp.code = 200
    /\ Finished(u, "get_case") /\ req[u].resp.code = 200
    /\ req[u].arg.case_id = req[s].resp.body.case_id

\* C15: create_case changes the committed rows in its commit only, and
\* there it adds exactly one case row, with the supplied fields, status
\* 'Active' and the identifier it returns, an identifier no row had before,
\* and leaves every other row as it was; a get_case of the returned id
\* right after the answer yields the supplied fields and status 'Active'.
C15_CreateCase ==
    [][/\ \A s \in Workers :
            (req'[s] # req[s] /\ req'[s].op = "create_case") =>
               IF Commits(s, "create_case")
                  THEN LET id == req[s].local.case_id IN
                       /\ CommittedDocuments' = CommittedDocuments
                       /\ CommittedHearings' = CommittedHearings
                       /\ \A r \in CommittedCases : r.case_id # id
                       /\ \E new \in CommittedCases' :
                             /\ CommittedCases' = CommittedCases \cup {new}
                             /\ new.case_id = id /\ new.status = "Active"
                             /\ \A f \in CaseFields : new[f] = req[s].arg[f]
                  ELSE Committed' = Committed
       /\ \A s, u \in Workers :
            ReadBack(s, u)' =>
               /\ req'[u].resp.body.status = "Active"
               /\ \A f \in CaseFields : req'[u].resp.body[f] = req'[s].arg[f]
      ]_vars

\* (C15, the part the code does implement) the same with, for each supplied
\* field, what the store holds for it: the string itself, NULL for the
\* empty one
C15_StoredFields ==
    [][/\ \A s \in Workers :
            (req'[s] # req[s] /\ req'[s].op = "create_case") =>
               IF Commits(s, "create_case")
                  THEN LET id == req[s].local.case_id IN
                       /\ CommittedDocuments' = CommittedDocuments
                       /\ CommittedHearings' = CommittedHearings
                       /\ \A r \in CommittedCases : r.case_id # id
                       /\ \E new \in CommittedCases' :
                             /\ CommittedCases' = CommittedCases \cup {new}
                             /\ new.case_id = id /\ new.status = "Active"
                             /\ \A f \in CaseFields :
                                   new[f] = ToColumn(req[s].arg[f])
                  ELSE Committed' = Committed
       /\ \A s, u \in Workers :
            ReadBack(s, u)' =>
               /\ req'[u].resp.body.status = "Active"
               /\ \A f \in CaseFields :
                     req'[u].resp.body[f] = ToColumn(req'[s].arg[f])
      ]_vars
\* a case created with an empty case type has been read back by the other
\* worker before the creating handler closed its connection
C15_ReadBackReached ==
    \E s, u \in Workers : ReadBack(s, u) /\ req[s].arg.case_type = << >>

\* the case ids in the store, committed or not, and those create_case
\* handlers hold to return
StoredIds == {r.cols.case_id : r \in cases}
HeldIds ==
    {req[s].local.case_id :
        s \in {w \in Workers : req[w].op = "create_case"
                                /\ "case_id" \in DOMAIN req[w].local}}
\* worker s inserts its case row in this step
Inserts(s) == req[s].pc = "idle" /\ req'[s].op = "create_case" /\ req'[s].pc = "commit"

DeletesCase(s, id) == Commits(s, "delete_case") /\ req[s].arg.case_id = id

\* C17: documents and hearings are immutable and go only with their case.
\* In every step, a committed document or hearing row stays as it is unless
\* the step is the successful commit of a delete_case of the case that owns
\* it, and no row of either table, committed or not, changes a field: a row
\* with the same key after the step is the same row.
C17_ChildrenImmutable ==
    [][/\ \A r \in CommittedDocuments \cup CommittedHearings :
            \/ r \in CommittedDocuments' \cup CommittedHearings'
            \/ \E s \in Workers : DeletesCase(s, r.case_id)
       /\ \A r \in documents, q \in documents' :
            q.cols.doc_id = r.cols.doc_id => q.cols = r.cols
       /\ \A r \in hearings, q \in hearings' :
            q.cols.hearing_id = r.cols.hearing_id => q.cols = r.cols
      ]_vars
\* delete_case of case 1 has answered success after two documents were
\* uploaded, and the one document left is case 2's
C17_Witness ==
    \E s \in Workers :
        /\ Finished(s, "delete_case") /\ req[s].resp.code = 200
        /\ req[s].arg.case_id = 1
        /\ nextDocId = 3
        /\ \E d \in CommittedDocuments : CommittedDocuments = {d} /\ d.case_id = 2

\* C18: upload_document and create_hearing need an existing owning case.
\* Called with a case_id that no case row carries, each INSERT is refused:
\* the handler goes straight to its error answer, a 500, and no row of any
\* table is inserted, removed or marked.
C18_OwningCaseRequired ==
    [][\A s \in Workers :
         (/\ req[s].pc = "idle"
          /\ req'[s].op \in {"upload_document", "create_hearing"}
          /\ \A r \in cases : r.cols.case_id # req'[s].arg.case_id) =>
            /\ req'[s].pc = "finally"
            /\ req'[s].exc # NoExc /\ req'[s].resp.code = 500
            /\ store' = store
      ]_vars
\* with a case and its document stored, and the store and the connection
\* sound, an upload for a case id of no row has been refused by the
\* foreign key
C18_Witness ==
    \E s \in Workers :
        /\ Finished(s, "upload_document") /\ req[s].resp.code = 500
        /\ req[s].exc.detail = "ORA-02291"
        /\ \A r \in cases : r.cols.case_id # req[s].arg.case_id
        /\ CommittedCases # {} /\ CommittedDocuments # {}

\* the handlers that answer a request with a status code: every endpoint
\* but /health, which reports a failed connect in a 200
Endpoints ==
    {"create_case", "get_all_cases", "get_case", "update_case",
     "update_case_status", "delete_case", "search_cases", "get_case_stats",
     "upload_document", "get_documents", "verify_document", "create_hearing",
     "get_hearings", "chat_with_ai", "summarize_document",
     "generate_legal_notice"}
\* the answer worker s sends
Answer(s) == req[s].resp.code

\* C19: the only outcome answered 404 is get_case on an id with no row;
\* every other failure of every endpoint -- a failed connect, a duplicate
\* document hash, a foreign key, a failed statement or commit, a failed AI
\* provider -- is answered 500, a handler that raised does nothing more
\* than close its cursor and connection, and nothing runs a failed
\* operation again.
C19_ErrorCodes ==
    [][\A s \in Workers :
         /\ (req'[s].op \in Endpoints /\ req'[s].exc # NoExc) =>
               /\ req'[s].pc = "finally"
               /\ Answer(s)' = IF req'[s].op = "get_case" /\ req'[s].exc = NotFound
                                   THEN 404 ELSE 500
         /\ (req'[s].op \in Endpoints /\ req'[s].pc = "finally"
                                       /\ req'[s].exc = NoExc) => Answer(s)' = 200
         /\ (req'[s].op \in Endpoints /\ req'[s].pc = "finally"
                                       /\ Answer(s)' = 404) =>
               /\ req'[s].op = "get_case"
               /\ \A r \in CommittedCases' : r.case_id # req'[s].arg.case_id
         /\ (req[s].pc = "finally" /\ req'[s] # req[s]) =>
               /\ req'[s] = Idle
               /\ store' = store
      ]_vars
\* an upload of a content already stored has been refused by the UNIQUE
\* constraint and answered 500
C19_Witness ==
    \E s \in Workers :
        /\ Finished(s, "upload_document") /\ Answer(s) = 500
        /\ req[s].exc.detail = "ORA-00001"
        /\ \E d \in CommittedDocuments : d.document_hash = req[s].local.document_hash

\* C20: get_documents answers exactly the document rows of the case id it
\* is given, each once, with upload timestamps that never increase from
\* one entry to the next, and get_hearings exactly the hearing rows of the
\* case id, each once, with hearing dates that never increase; for a case
\* with no such rows and for a case id of no case the answer is an empty
\* list, and the only error is that of a failed connection or store.
C20_CaseListings ==
    \A s \in Workers :
        /\ Finished(s, "get_documents") =>
              IF Answer(s) = 200
                 THEN LET out == req[s].resp.body.documents
                          rows == {r \in CommittedDocuments :
                                      r.case_id = req[s].arg.case_id} IN
                      /\ Len(out) = Cardinality(rows)
                      /\ {out[i] : i \in DOMAIN out} = {DocumentEntry(r) : r \in rows}
                      /\ \A i, j \in DOMAIN out :
                            i < j => out[i].uploaded_at.isoformat
                                        >= out[j].uploaded_at.isoformat
                 ELSE StoreFailed(s)
        /\ Finished(s, "get_hearings") =>
              IF Answer(s) = 200
                 THEN LET out == req[s].resp.body.hearings
                          rows == {r \in CommittedHearings :
                                      r.case_id = req[s].arg.case_id} IN
                      /\ Len(out) = Cardinality(rows)
                      /\ {out[i] : i \in DOMAIN out} = {HearingEntry(r) : r \in rows}
                      /\ \A i, j \in DOMAIN out :
                            i < j => out[i].hearing_date.isoformat
                                        >= out[j].hearing_date.isoformat
                 ELSE StoreFailed(s)
\* get_hearings has listed the two hearings of a case, the later date first
\* though it was added last, with no hearing under case id 2 and a document
\* stored
C20_Witness ==
    \E s \in Workers :
        /\ Finished(s, "get_hearings") /\ Answer(s) = 200
        /\ Len(req[s].resp.body.hearings) = 2
        /\ req[s].resp.body.hearings[1].hearing_date.isoformat
              > req[s].resp.body.hearings[2].hearing_date.isoformat
        /\ req[s].resp.body.hearings[1].hearing_id
              > req[s].resp.body.hearings[2].hearing_id
        /\ HearingsOf(s, 2) = {} /\ CommittedDocuments # {}

\* worker s runs upload_document
Uploading(s) == req[s].op = "upload_document"

WithHash(hash) == {d \in CommittedDocuments : d.document_hash = hash}

\* C24: two upload_document requests that run at the same time with the
\* same content, for the same or different cases, in any interleaving: at
\* most one answers success and then the other has failed with a 500; the
\* store never holds two rows of that hash, and holds exactly one once an
\* upload has answered success or been refused by the UNIQUE constraint.
C24_OneUploadWins ==
    \A s, u \in Workers :
        (/\ s # u /\ Finished(s, "upload_document") /\ Finished(u, "upload_document")
         /\ req[s].local.content = req[u].local.content) =>
            LET hash == req[s].local.document_hash IN
            /\ ~(Answer(s) = 200 /\ Answer(u) = 200)
            /\ Answer(s) = 200 => Answer(u) = 500 /\ req[u].exc # NoExc
            /\ Cardinality(WithHash(hash)) <= 1
            /\ (Answer(s) = 200 \/ req[s].exc.detail = "ORA-00001") =>
                  Cardinality(WithHash(hash)) = 1
            /\ \A d \in documents : d.cols.document_hash = hash => d.ins_by = NoTx
\* two uploads of the same content for different cases have both finished,
\* one with success, the other refused by the UNIQUE constraint
C24_Witness ==
    \E s, u \in Workers :
        /\ Finished(s, "upload_document") /\ Finished(u, "upload_document")
        /\ req[s].local.content = req[u].local.content
        /\ req[s].arg.case_id # req[u].arg.case_id
        /\ Answer(s) = 200 /\ req[u].exc.detail = "ORA-00001"
        /\ Cardinality(WithHash(req[s].local.document_hash)) = 1

\* the committed case rows a chat request names
ChatCase(request) == {r \in CommittedCases : r.case_id = request.case_id}
\* the texts of a prompt's parts of one kind
PartsOf(prompt, part) ==
    {prompt[i].text : i \in {j \in DOMAIN prompt : prompt[j].part = part}}

\* C22: chat_with_ai never modifies the store and never fails because of a
\* missing case.  No step of it changes a row; the prompt handed to the
\* provider carries, as context, the title, type and description of the
\* case when case_id is given and a row has it, and no case context when
\* case_id is absent (0) or matches no row; the request fails only when the
\* connect or the SELECT failed or the provider did, and then with a 500.
C22_ChatWithAi ==
    [][\A s \in Workers :
         (req'[s] # req[s] /\ req'[s].op = "chat_with_ai") =>
            /\ store' = store /\ seqs' = seqs
            /\ req[s].pc = "groq" =>
                  LET prompt == req'[s].local.prompt
                      rows == ChatCase(req[s].arg) IN
                  /\ PartsOf(prompt, "Context")
                        = {[none |-> FALSE, case_title |-> r.case_title,
                            case_type |-> r.case_type,
                            description |-> r.description] : r \in rows}
                  /\ PartsOf(prompt, "User Query") = {req[s].arg.message}
                  /\ PartsOf(prompt, "Additional Context")
                        = {req[s].arg.context} \ {Null}
                  /\ Answer(s)' = IF req'[s].exc = NoExc THEN 200 ELSE 500
                  /\ req'[s].exc \in {NoExc, AiError}
            /\ req[s].pc = "idle" =>
                  \/ req'[s].pc = "groq" /\ req'[s].exc = NoExc
                  \/ /\ req'[s].pc = "finally" /\ Answer(s)' = 500
                     /\ StoreFailed(s)' /\ req'[s].arg.case_id # 0
      ]_vars
\* the provider has failed a chat about an edited case: the prompt carried
\* the case's new title and description, and the answer is a 500
C22_Witness ==
    \E s \in Workers :
        /\ Finished(s, "chat_with_ai") /\ req[s].exc = AiError /\ Answer(s) = 500
        /\ \E r \in ChatCase(req[s].arg) :
              /\ r.case_title = Update1.case_title
              /\ PartsOf(req[s].local.prompt, "Context")
                    = {[none |-> FALSE, case_title |-> r.case_title,
                        case_type |-> r.case_type, description |-> r.description]}

\* C23: health_check never answers an error.  Whatever the store and the
\* schema are, it answers 200 with status 'running', and database is
\* 'connected' exactly when get_db_connection returned a connection during
\* the call and 'disconnected' otherwise; no exception leaves the handler
\* and it holds no connection or cursor when it answers.
C23_HealthCheck ==
    \A s \in Workers :
        Finished(s, "health_check") =>
            /\ Answer(s) = 200
            /\ req[s].exc = NoExc
            /\ req[s].resp.body.status = "running"
            /\ req[s].resp.body.database \in {"connected", "disconnected"}
            /\ req[s].resp.body.database = "connected" <=> req[s].local.opened
            /\ ~req[s].conn /\ ~req[s].cursor
\* the probe answers 'disconnected' with a 200 over a schema that holds
\* a case already
C23_Witness ==
    /\ Finished("w1", "health_check")
    /\ ~req["w1"].local.opened
    /\ Answer("w1") = 200
    /\ req["w1"].resp.body.database = "disconnected"
    /\ CommittedCases # {}

\* C30: start-up initialisation is idempotent and non-fatal.  A run of
\* startup_event never drops a table and never touches a row or a sequence;
\* it creates tables of its entry point only, none when they all exist, all
\* the missing ones when nothing fails; an error comes only from the
\* connection or the store, is caught (no response, the process goes on to
\* serve), and the connection and cursor it opened are closed when it ends.
C30_StartupIdempotent ==
    [][\A s \in Workers :
          /\ (req[s].pc = "idle" /\ req'[s].op = "init_database") =>
                LET mine == Created(req'[s].app, Len(InitTables(req'[s].app))) IN
                /\ store' = store /\ seqs' = seqs
                /\ tables \subseteq tables'
                /\ tables' \subseteq tables \cup mine
                /\ mine \subseteq tables => tables' = tables
                /\ req'[s].exc = NoExc => tables' = tables \cup mine
                /\ req'[s].exc # NoExc =>
                      req'[s].exc.detail \in {ConnFailed.detail, "ORA-03113"}
                /\ req'[s].pc = "finally" /\ req'[s].resp = NoResp
                /\ req'[s].conn = (req'[s].exc # ConnFailed)
          /\ (req[s].op = "init_database" /\ req[s].pc = "finally"
                    /\ req'[s] # req[s]) =>
                /\ req'[s] = Idle
                /\ openConns' = 0 /\ openCursors' = 0
                /\ UNCHANGED <<store, seqs, tables>>
     ]_vars
\* app.py's start-up has run without an error over a schema whose two
\* tables of its own both hold a committed row, and left it as it was
C30_Witness ==
    /\ Finished("w1", "init_database")
    /\ req["w1"].app = "app"
    /\ req["w1"].exc = NoExc
    /\ CommittedCases # {} /\ CommittedDocuments # {}
    /\ tables = {"CASES", "DOCUMENTS"}

\* the committed document and hearing rows of case id that transaction t
\* has not deleted: rows committed after t's DELETE of their table
CommittedSince(t, id) ==
    {r \in documents \cup hearings :
        r.cols.case_id = id /\ r.ins_by = NoTx /\ r.del_by = NoTx}

\* C25: main.py's delete_case against a racing insert of a dependent row.
\* When a document or hearing of the case has been committed after
\* delete_case ran its DELETE of that table and before its DELETE of the
\* case row, that DELETE raises: delete_case answers 500 and rolls back,
\* and the committed rows are those of before.  In every interleaving the
\* committed rows change in a delete_case only at its commit, which removes
\* every row of the case, and no committed document or hearing is ever
\* left without its committed case.
C25_DeleteRace ==
    [][/\ \A s \in Workers :
            (/\ req[s].op = "delete_case" /\ req[s].app = "main"
             /\ req'[s] # req[s]) =>
               /\ (/\ req[s].pc = "delete_cases"
                   /\ CommittedSince(s, req[s].arg.case_id) # {}) =>
                      /\ req'[s].pc = "finally"
                      /\ req'[s].resp.code = 500
                      /\ req'[s].tx = "rolledback"
                      /\ Committed' = Committed
                      /\ Pending(s)' = {}
               /\ Committed' # Committed =>
                      /\ req[s].pc = "commit" /\ req'[s].resp.code = 200
                      /\ RowsOf(req[s].arg.case_id)' = {}
       /\ \A r \in CommittedDocuments' \cup CommittedHearings' :
            \E c \in CommittedCases' : c.case_id = r.case_id
      ]_vars
\* a delete_case has answered 500 on the foreign key and rolled back, the
\* upload_document that committed a document of the case between its two
\* DELETEs has answered success, and the case and the document are there
C25_Witness ==
    \E s, t \in Workers :
        /\ Finished(s, "delete_case") /\ req[s].app = "main"
        /\ Answer(s) = 500 /\ req[s].exc.detail = "ORA-02292"
        /\ req[s].tx = "rolledback"
        /\ Finished(t, "upload_document") /\ Answer(t) = 200
        /\ req[t].arg.case_id = req[s].arg.case_id
        /\ \E c \in CommittedCases, d \in CommittedDocuments :
              c.case_id = req[s].arg.case_id /\ d.case_id = c.case_id

\* the endpoints of both main.py and app.py
SharedOps ==
    {"create_case", "get_all_cases", "get_case", "update_case_status",
     "delete_case"}
\* what main.py's handler of a shared endpoint answers and leaves in the
\* store when the connection and the store do not fail, said of the
\* handler of entry point app that worker s has finished
AnswersAsMain(s, app) ==
    (/\ req[s].pc = "finally" /\ req[s].op \in SharedOps /\ req[s].app = app
     /\ ~StoreFailed(s)) =>
        LET id == req[s].arg.case_id
            rows == {r \in CommittedCases : r.case_id = id} IN
        CASE req[s].op = "create_case" ->
                /\ req[s].resp =
                      [code |-> 200,
                       body |-> [success |-> TRUE, case_id |-> req[s].local.case_id,
                                 message |-> "Case created successfully"]]
                /\ \E r \in CommittedCases : r.case_id = req[s].local.case_id
          [] req[s].op = "get_all_cases" ->
                /\ Answer(s) = 200
                /\ {req[s].resp.body.cases[i].case_id :
                        i \in DOMAIN req[s].resp.body.cases} = StoredIds
          [] req[s].op = "get_case" ->
                IF rows = {} THEN req[s].resp = [code |-> 404, detail |-> "Case not found"]
                ELSE Answer(s) = 200 /\ \E r \in rows : req[s].resp.body = CaseData(r)
          [] req[s].op = "update_case_status" ->
                /\ req[s].resp =
                      [code |-> 200,
                       body |-> [success |-> TRUE,
                                 message |-> "Status updated successfully"]]
                /\ \A r \in rows : r.status = StatusToColumn(req[s].arg.status)
          [] req[s].op = "delete_case" ->
                /\ req[s].resp =
                      [code |-> 200,
                       body |-> [success |-> TRUE,
                                 message |-> "Case deleted successfully"]]
                /\ RowsOf(id) = {}

\* C26: the two entry points are equivalent on the endpoints they share.
\* Whatever the store holds, create_case, get_all_cases, get_case,
\* update_case_status and delete_case served by app.py answer what main.py's
\* answer and leave the store main.py's leave.
C26_EntryPointsEquivalent == \A s \in Workers : AnswersAsMain(s, "app")
\* main.py's own handlers answer so in every state (the answers taken as
\* main.py's above are its answers)
C26_MainAnswers == \A s \in Workers : AnswersAsMain(s, "main")
\* ... and so do four of app.py's five: all but delete_case
C26_SharedButDelete ==
    \A s \in Workers : req[s].op # "delete_case" => AnswersAsMain(s, "app")

\* the hashes of the committed documents of case id
HashesOf(id) ==
    {d.document_hash : d \in {x \in CommittedDocuments : x.case_id = id}}

\* C27: deleting a case frees the hashes of its documents.  The commit of a
\* delete_case that answers success leaves no document row with a hash of
\* a document of the case; over a store with no row of a hash,
\* verify_document of it answers 200 with verified = false, and an
\* upload_document of content with that hash to a case that exists inserts
\* its row and, its commit done, answers success with the hash stored under
\* the new case (failures of the connection and the store apart).
C27_DeleteFreesHashes ==
    [][\A s \in Workers :
          /\ (/\ req[s].op = "delete_case" /\ req[s].pc = "commit"
              /\ req'[s].pc = "finally" /\ req'[s].resp.code = 200) =>
                \A h \in HashesOf(req[s].arg.case_id) :
                   /\ WithHash(h)' = {}
                   /\ \A d \in documents' : d.cols.document_hash # h
          /\ (/\ req[s].pc = "idle" /\ req'[s].op = "verify_document"
              /\ ~StoreFailed(s)' /\ WithHash(req'[s].arg.document_hash) = {}) =>
                /\ req'[s].resp.code = 200
                /\ ~req'[s].resp.body.verified
          /\ (/\ req[s].pc = "idle" /\ req'[s].op = "upload_document"
              /\ ~StoreFailed(s)'
              /\ \A d \in documents :
                    d.cols.document_hash # req'[s].local.document_hash
              /\ \E c \in CommittedCases : c.case_id = req'[s].arg.case_id) =>
                /\ req'[s].pc = "commit"
                /\ \E d \in documents' :
                      /\ d.cols.document_hash = req'[s].local.document_hash
                      /\ d.cols.case_id = req'[s].arg.case_id
          /\ (/\ req[s].op = "upload_document" /\ req[s].pc = "commit"
              /\ req'[s].pc = "finally" /\ ~StoreFailed(s)') =>
                /\ req'[s].resp.code = 200
                /\ \E d \in WithHash(req[s].local.document_hash)' :
                      d.case_id = req[s].arg.case_id
      ]_vars
\* the one content there is was stored as document 1, went with its case,
\* and has been uploaded again with success as document 2 of case 2
C27_Witness ==
    /\ Finished("w1", "upload_document") /\ Answer("w1") = 200
    /\ req["w1"].arg.case_id = 2
    /\ CommittedDocuments # {}
    /\ \A d \in CommittedDocuments :
          /\ d.doc_id = 2 /\ d.case_id = 2
          /\ d.document_hash = Sha256Hex(<<97>>)
    /\ \A c \in CommittedCases : c.case_id = 2

\* C28: delete_case of an id that matches no case row, through either
\* entry point.  No step of it changes a row, it never answers 404, and
\* unless the connection or the store fails it answers 200 with
\* success = true; so a second delete_case of a case just deleted answers
\* as the first did and leaves the store as the first left it.
C28_DeleteMissing ==
    [][\A s \in Workers :
          (/\ req'[s] # req[s] /\ req'[s].op = "delete_case"
           /\ RowsOf(req'[s].arg.case_id) = {}) =>
             /\ Committed' = Committed
             /\ req'[s].resp.code # 404
             /\ req'[s].pc = "finally" =>
                   /\ Pending(s)' = {}
                   /\ \/ StoreFailed(s)' /\ req'[s].resp.code = 500
                      \/ req'[s].resp =
                            [code |-> 200,
                             body |-> [success |-> TRUE,
                                       message |-> "Case deleted successfully"]]
      ]_vars
\* app.py's delete_case has answered success for id 2, which no case has
\* had yet, and case 1 and its hearing are stored as they were
C28_Witness ==
    /\ Finished("w1", "delete_case") /\ req["w1"].app = "app"
    /\ req["w1"].arg.case_id = 2
    /\ nextCaseId = 2
    /\ Answer("w1") = 200 /\ req["w1"].resp.body.success
    /\ \E c \in CommittedCases : c.case_id = 1
    /\ \E h \in CommittedHearings : h.case_id = 1

\* the case id and creation time of every committed case
CaseKeys == {<<c.case_id, c.created_at>> : c \in CommittedCases}

\* C29: no operation changes the case_id or the created_at of an existing
\* case.  In every step of create_case, update_case, update_case_status,
\* upload_document and create_hearing, and as time passes, each committed
\* case keeps its id and its creation time; the only new pair is that of a
\* case whose create_case commits, under an id no case had; and the value
\* an open UPDATE holds for a row has the id and creation time of the row.
C29_CaseKeysFixed ==
    [][/\ CaseKeys \subseteq CaseKeys'
       /\ CaseKeys' # CaseKeys =>
             \E s \in Workers :
                /\ req[s].op = "create_case" /\ req[s].pc = "commit"
                /\ \E r \in cases :
                      /\ r.ins_by = s /\ r.cols.case_id = req[s].local.case_id
                      /\ CaseKeys' \ CaseKeys =
                            {<<r.cols.case_id, r.cols.created_at>>}
                /\ \A k \in CaseKeys : k[1] # req[s].local.case_id
       /\ \A r \in cases' :
             /\ r.new.case_id = r.cols.case_id
             /\ r.new.created_at = r.cols.created_at
      ]_vars
\* case 1, created at time 0, has been edited and then closed at time 1,
\* and has kept its id and its creation time
C29_Witness ==
    /\ Finished("w1", "update_case_status") /\ Answer("w1") = 200
    /\ req["w1"].arg.case_id = 1
    /\ clock = 1
    /\ \E c \in CommittedCases :
          /\ c.case_id = 1 /\ c.created_at = 0
          /\ c.status = "Closed"
          /\ c.case_title = ToColumn(Update1.case_title)

=============================================================================
